---- MODULE Spec2Model ----
(***************************************************************************)
(* Verification model of B438-Checkers.                                    *)
(*                                                                         *)
(* Two rule engines live in the repository:                                *)
(*   - src/src/checkersEngine.py : Board (grid of Piece enum values) with  *)
(*     legal_moves / apply_move / promote.  RED starts on rows 5-7 and     *)
(*     moves towards row 0.  Used by checkersGUINetworked.py.              *)
(*   - src/game_logic.py + src/board.py + src/piece.py : Game with         *)
(*     get_valid_moves / move_piece.  RED starts on rows 0-2 and moves     *)
(*     towards row 7.  Used by tkinter_ui.py.                              *)
(*                                                                         *)
(* legal_moves, apply_move, _find_simple_moves_from and                    *)
(* _find_captures_from of checkersEngine.py take self and are called as    *)
(* self.board.legal_moves(...) by the GUIs: they are modelled as methods   *)
(* of the engine's Board.                                                  *)
(***************************************************************************)
EXTENDS Integers, Sequences, FiniteSets, TLC

VARIABLES
    app,                \* which program runs: "engine", "game", "net", "notation",
                        \* "ui" or "recv"
    grid,               \* checkersEngine.Board.grid : square -> Piece
    current_player,     \* NetworkedCheckersApp.current_player
    local_side,         \* NetworkedCheckersApp.local_side
    selected,           \* NetworkedCheckersApp.selected, CheckersUI.selected
    valid_moves_cache,  \* NetworkedCheckersApp.valid_moves_cache
    board,              \* game_logic.Game.board.board : square -> Piece object / None
    turn,               \* game_logic.Game.turn
    winner,             \* game_logic.Game.winner
    must_continue,      \* tkinter_ui.CheckersUI.must_continue
    continue_pos,       \* tkinter_ui.CheckersUI.continue_pos
    stream,             \* the bytes the peer has sent on the socket
    chunks,             \* the results of the sock.recv calls still to come
    buffer,             \* networkTCP.TCPConnection._recv_loop: buffer
    delivered,          \* the arguments of the on_message calls made so far
    running,            \* networkTCP.TCPConnection._running
    _network_msg_queue, \* NetworkedCheckersApp._network_msg_queue
    pump_pc,            \* where the main thread is in _pump_network_messages
    msg,                \* _pump_network_messages: msg
    arrived,            \* history: the lines handed to on_msg, in order
    handled,            \* history: the lines given to _handle_network_msg, in order
    peers,              \* two-peer game: the NetworkedCheckersApp of the host (1) and of the client (2)
    wire,               \* two-peer game: the lines sent to each peer and not yet received
    link,               \* two-peer game: TCPServer / TCPClient of the two peers
    fwd,                \* matchServer: position and data of the threads t1, t2 in forward
    sock,               \* matchServer: the sockets p1, p2 ("open" or "closed")
    inbox,              \* matchServer: chunks sent by each player, not yet returned by recv
    gone,               \* matchServer: the player has disconnected
    sent,               \* history: all chunks each player has sent
    relayed,            \* history: the chunks given to sendall for each player
    server,             \* matchServer: the listening socket ("listening" or "closed")
    pending,            \* history: square of the last reported continuation, or NoSquare
    last,               \* history: the last call made, its arguments and its result
    steps               \* history: number of operations performed

vars == << app, grid, current_player, local_side, selected, valid_moves_cache,
           board, turn, winner, must_continue, continue_pos,
           stream, chunks, buffer, delivered, running,
           _network_msg_queue, pump_pc, msg, arrived, handled, peers, wire, link,
           fwd, sock, inbox, gone, sent, relayed, server,
           pending, last, steps >>

engineVars == << grid >>
guiVars    == << current_player, local_side, selected, valid_moves_cache >>
gameVars   == << board, turn, winner, pending >>
uiVars     == << must_continue, continue_pos >>
recvVars   == << stream, chunks, buffer, delivered, running >>
pumpVars   == << _network_msg_queue, pump_pc, msg, arrived, handled >>
peerVars   == << peers, wire, link >>
relayVars  == << fwd, sock, inbox, gone, sent, relayed, server >>

(***************************************************************************)
(* Bounds of the model.                                                    *)
(***************************************************************************)
MaxPieces == 5      \* most pieces on a drawn starting position
MaxMoves  == 1      \* engine calls (moves, searches) in one behaviour
MaxCalls  == 2      \* Game calls (accepted moves, searches) in one behaviour
MaxEvents == 2      \* GUI events (clicks, received lines) in one behaviour

(***************************************************************************)
(* checkersEngine.py : constants, enums and helpers                        *)
(***************************************************************************)
BOARD_SIZE == 8

Rows    == 0 .. (BOARD_SIZE - 1)
Squares == Rows \X Rows
NoSquare == << -9, -9 >>

Player == {"RED", "BLACK"}
Piece  == {"EMPTY", "RED", "RED_KING", "BLACK", "BLACK_KING"}

\* F applied to the value of v, with v computed once
Bind(v, F(_)) == CHOOSE r \in { F(x) : x \in {v} } : TRUE

Other(player) == IF player = "RED" THEN "BLACK" ELSE "RED"

Abs(x) == IF x < 0 THEN -x ELSE x

is_dark_square(r, c) == (r + c) % 2 = 1

piece_owner(piece) ==
    IF piece \in {"RED", "RED_KING"} THEN "RED"
    ELSE IF piece \in {"BLACK", "BLACK_KING"} THEN "BLACK"
    ELSE "None"

is_king(piece) == piece \in {"RED_KING", "BLACK_KING"}

promote_never(piece, row) == piece

promote_demote(piece, row) ==
    IF piece_owner(piece) = "RED" THEN (IF row = 0 THEN "RED_KING" ELSE "RED")
    ELSE IF piece_owner(piece) = "BLACK"
         THEN (IF row = BOARD_SIZE - 1 THEN "BLACK_KING" ELSE "BLACK")
    ELSE piece

promote(piece, row) ==
    IF piece = "RED" /\ row = 0 THEN "RED_KING"
    ELSE IF piece = "BLACK" /\ row = BOARD_SIZE - 1 THEN "BLACK_KING"
    ELSE piece

setup_initial_four_rows ==
    [sq \in Squares |->
        IF ~is_dark_square(sq[1], sq[2]) THEN "EMPTY"
        ELSE IF sq[1] <= 3 THEN "BLACK"
        ELSE IF sq[1] >= 5 THEN "RED"
        ELSE "EMPTY"]

\* Board.setup_initial
setup_initial ==
    [sq \in Squares |->
        IF ~is_dark_square(sq[1], sq[2]) THEN "EMPTY"
        ELSE IF sq[1] <= 2 THEN "BLACK"
        ELSE IF sq[1] >= 5 THEN "RED"
        ELSE "EMPTY"]

in_bounds(r, c) == 0 <= r /\ r < BOARD_SIZE /\ 0 <= c /\ c < BOARD_SIZE

\* Python list indexing: an index in -8..-1 counts from the end, anything
\* outside -8..7 raises IndexError.
IndexOK(r, c) == r >= -BOARD_SIZE /\ r < BOARD_SIZE /\ c >= -BOARD_SIZE /\ c < BOARD_SIZE
PyIdx(i) == IF i < 0 THEN i + BOARD_SIZE ELSE i

\* Board.get / Board.set (callers establish IndexOK first)
get(b, r, c) == b[<< PyIdx(r), PyIdx(c) >>]
set(b, r, c, val) == [b EXCEPT ![<< PyIdx(r), PyIdx(c) >>] = val]

directions == << << -1, -1 >>, << -1, 1 >>, << 1, -1 >>, << 1, 1 >> >>

simple_steps_straight(piece) ==
    IF is_king(piece) THEN directions
    ELSE IF piece_owner(piece) = "RED" THEN << << -1, 0 >>, << -1, 1 >> >>
    ELSE << << 1, 0 >>, << 1, 1 >> >>

\* _find_simple_moves_from: the step list of the piece on (r, c)
simple_steps(piece) ==
    IF is_king(piece) THEN directions
    ELSE IF piece_owner(piece) = "RED" THEN << << -1, -1 >>, << -1, 1 >> >>
    ELSE << << 1, -1 >>, << 1, 1 >> >>

RECURSIVE simple_from_steps(_, _, _, _, _)
simple_from_steps(b, r, c, stepList, i) ==
    IF i > Len(stepList) THEN << >>
    ELSE LET nr == r + stepList[i][1]
             nc == c + stepList[i][2]
             rest == simple_from_steps(b, r, c, stepList, i + 1)
         IN IF ~in_bounds(nr, nc) THEN rest
            ELSE IF get(b, nr, nc) = "EMPTY"
                 THEN << << << r, c >>, << nr, nc >> >> >> \o rest
                 ELSE rest

_find_simple_moves_from(b, r, c) ==
    IF get(b, r, c) = "EMPTY" THEN << >>
    ELSE simple_from_steps(b, r, c, simple_steps(get(b, r, c)), 1)

can_jump_any_direction(owner, snap, cur_r, cur_c, dr, dc) ==
    /\ in_bounds(cur_r + dr, cur_c + dc) /\ in_bounds(cur_r + 2 * dr, cur_c + 2 * dc)
    /\ get(snap, cur_r + 2 * dr, cur_c + 2 * dc) = "EMPTY"
    /\ piece_owner(get(snap, cur_r + dr, cur_c + dc)) = Other(owner)

can_jump_over_any(owner, snap, cur_r, cur_c, dr, dc) ==
    /\ in_bounds(cur_r + dr, cur_c + dc) /\ in_bounds(cur_r + 2 * dr, cur_c + 2 * dc)
    /\ get(snap, cur_r + 2 * dr, cur_c + 2 * dc) = "EMPTY"
    /\ get(snap, cur_r + dr, cur_c + dc) # "EMPTY"
    /\ ~(~is_king(get(snap, cur_r, cur_c)) /\ owner = "RED" /\ dr > 0)
    /\ ~(~is_king(get(snap, cur_r, cur_c)) /\ owner = "BLACK" /\ dr < 0)

can_jump_onto_piece(owner, snap, cur_r, cur_c, dr, dc) ==
    /\ in_bounds(cur_r + dr, cur_c + dc) /\ in_bounds(cur_r + 2 * dr, cur_c + 2 * dc)
    /\ ~(piece_owner(get(snap, cur_r + dr, cur_c + dc)) = "None"
         \/ piece_owner(get(snap, cur_r + dr, cur_c + dc)) = owner)
    /\ ~(~is_king(get(snap, cur_r, cur_c)) /\ owner = "RED" /\ dr > 0)
    /\ ~(~is_king(get(snap, cur_r, cur_c)) /\ owner = "BLACK" /\ dr < 0)

can_jump_red_backward(owner, snap, cur_r, cur_c, dr, dc) ==
    /\ in_bounds(cur_r + dr, cur_c + dc) /\ in_bounds(cur_r + 2 * dr, cur_c + 2 * dc)
    /\ get(snap, cur_r + 2 * dr, cur_c + 2 * dc) = "EMPTY"
    /\ ~(piece_owner(get(snap, cur_r + dr, cur_c + dc)) = "None"
         \/ piece_owner(get(snap, cur_r + dr, cur_c + dc)) = owner)
    /\ ~(~is_king(get(snap, cur_r, cur_c)) /\ owner = "BLACK" /\ dr < 0)

\* The guard of one direction inside _find_captures_from.dfs (lines 246-263)
can_jump(owner, snap, cur_r, cur_c, dr, dc) ==
    LET mid_r == cur_r + dr
        mid_c == cur_c + dc
        land_r == cur_r + 2 * dr
        land_c == cur_c + 2 * dc
        p == get(snap, cur_r, cur_c)
    IN /\ in_bounds(mid_r, mid_c) /\ in_bounds(land_r, land_c)
       /\ get(snap, land_r, land_c) = "EMPTY"
       /\ ~(piece_owner(get(snap, mid_r, mid_c)) = "None"
            \/ piece_owner(get(snap, mid_r, mid_c)) = owner)
       /\ ~(~is_king(p) /\ owner = "RED" /\ dr > 0)
       /\ ~(~is_king(p) /\ owner = "BLACK" /\ dr < 0)

\* The snapshot after one jump (lines 265-270)
jump_snapshot(snap, cur_r, cur_c, dr, dc) ==
    LET p == get(snap, cur_r, cur_c)
        s1 == set(snap, cur_r + dr, cur_c + dc, "EMPTY")
        s2 == set(s1, cur_r, cur_c, "EMPTY")
    IN set(s2, cur_r + 2 * dr, cur_c + 2 * dc, p)

RECURSIVE dfs(_, _, _, _, _)
dfs(owner, snap, cur_r, cur_c, path) ==
    LET branch(i) ==
            LET dr == directions[i][1]
                dc == directions[i][2]
            IN IF can_jump(owner, snap, cur_r, cur_c, dr, dc)
               THEN dfs(owner, jump_snapshot(snap, cur_r, cur_c, dr, dc),
                        cur_r + 2 * dr, cur_c + 2 * dc,
                        Append(path, << cur_r + 2 * dr, cur_c + 2 * dc >>))
               ELSE << >>
        moved == \E i \in 1 .. 4 :
                    can_jump(owner, snap, cur_r, cur_c, directions[i][1], directions[i][2])
    IN IF moved THEN branch(1) \o branch(2) \o branch(3) \o branch(4)
       ELSE IF Len(path) > 1 THEN << path >>
       ELSE << >>

_find_captures_from(b, r, c) ==
    IF get(b, r, c) = "EMPTY" THEN << >>
    ELSE dfs(piece_owner(get(b, r, c)), b, r, c, << << r, c >> >>)

\* legal_moves: the scan of lines 126-137, square k = r * 8 + c
RECURSIVE scan_captures(_, _, _)
scan_captures(b, player, k) ==
    IF k >= BOARD_SIZE * BOARD_SIZE THEN << >>
    ELSE LET r == k \div BOARD_SIZE
             c == k % BOARD_SIZE
         IN IF piece_owner(get(b, r, c)) # player
            THEN scan_captures(b, player, k + 1)
            ELSE _find_captures_from(b, r, c) \o scan_captures(b, player, k + 1)

RECURSIVE scan_quiets(_, _, _)
scan_quiets(b, player, k) ==
    IF k >= BOARD_SIZE * BOARD_SIZE THEN << >>
    ELSE LET r == k \div BOARD_SIZE
             c == k % BOARD_SIZE
         IN IF piece_owner(get(b, r, c)) # player
            THEN scan_quiets(b, player, k + 1)
            ELSE IF _find_captures_from(b, r, c) = << >>
                 THEN _find_simple_moves_from(b, r, c) \o scan_quiets(b, player, k + 1)
                 ELSE scan_quiets(b, player, k + 1)

RECURSIVE MaxJumps(_)
MaxJumps(ms) ==
    IF Len(ms) = 1 THEN Len(ms[1]) - 1
    ELSE LET m == MaxJumps(Tail(ms))
         IN IF Len(ms[1]) - 1 > m THEN Len(ms[1]) - 1 ELSE m

legal_moves_with_quiets(b, player, max_capture) ==
    scan_captures(b, player, 0) \o scan_quiets(b, player, 0)

pick_moves_all(captures, b, player, max_capture) ==
    IF captures # << >> THEN captures ELSE scan_quiets(b, player, 0)

\* lines 139-146
pick_moves(captures, b, player, max_capture) ==
    IF captures # << >>
    THEN IF max_capture
         THEN LET best(m) == (Len(m) - 1) = MaxJumps(captures)
              IN SelectSeq(captures, best)
         ELSE captures
    ELSE scan_quiets(b, player, 0)

legal_moves(b, player, max_capture) ==
    Bind(scan_captures(b, player, 0),
         LAMBDA captures : pick_moves(captures, b, player, max_capture))

(***************************************************************************)
(* Move generation on Board objects.  A heap is a sequence of grids, one   *)
(* per Board object; the Board the method is called on is object 1.        *)
(* Board.clone makes a new object with a copy of the grid, Board.set       *)
(* changes the object it is called on.  The results are those of dfs,      *)
(* _find_captures_from and legal_moves above; what is added is the heap    *)
(* the call leaves.                                                        *)
(***************************************************************************)
clone_shared(h, id) == [heap |-> h, id |-> id]

\* Board.clone (deepcopy of the grid)
clone(h, id) == [heap |-> Append(h, h[id]), id |-> Len(h) + 1]

\* _find_captures_from.dfs on object id; k is the index of the direction
\* the loop of line 245 has reached
RECURSIVE dfs_on(_, _, _, _, _, _, _, _, _)
dfs_on(h, owner, id, cur_r, cur_c, path, k, moved, results) ==
    IF k > 4
    THEN [heap |-> h,
          results |-> IF ~moved /\ Len(path) > 1 THEN Append(results, path) ELSE results]
    ELSE LET dr == directions[k][1]
             dc == directions[k][2]
         IN IF can_jump(owner, h[id], cur_r, cur_c, dr, dc)
            THEN LET new_snapshot == clone(h, id)
                     h1 == [new_snapshot.heap EXCEPT
                              ![new_snapshot.id] = jump_snapshot(@, cur_r, cur_c, dr, dc)]
                 IN Bind(dfs_on(h1, owner, new_snapshot.id, cur_r + 2 * dr, cur_c + 2 * dc,
                                Append(path, << cur_r + 2 * dr, cur_c + 2 * dc >>),
                                1, FALSE, results),
                         LAMBDA sub : dfs_on(sub.heap, owner, id, cur_r, cur_c, path,
                                             k + 1, TRUE, sub.results))
            ELSE dfs_on(h, owner, id, cur_r, cur_c, path, k + 1, moved, results)

\* _find_captures_from called on object 1 (line 280: dfs(self.clone(), ...))
_find_captures_from_on(h, r, c) ==
    IF get(h[1], r, c) = "EMPTY" THEN [heap |-> h, results |-> << >>]
    ELSE LET first == clone(h, 1)
         IN dfs_on(first.heap, piece_owner(get(h[1], r, c)), first.id, r, c,
                   << << r, c >> >>, 1, FALSE, << >>)

\* legal_moves called on a Board with grid b: the grid of that Board after
\* the scan of lines 126-137 (the snapshots of a finished search are dropped)
RECURSIVE legal_moves_on(_, _, _)
legal_moves_on(b, player, k) ==
    IF k >= BOARD_SIZE * BOARD_SIZE THEN b
    ELSE IF piece_owner(get(b, k \div BOARD_SIZE, k % BOARD_SIZE)) # player
         THEN legal_moves_on(b, player, k + 1)
         ELSE legal_moves_on(
                 _find_captures_from_on(<< b >>, k \div BOARD_SIZE, k % BOARD_SIZE).heap[1],
                 player, k + 1)

(***************************************************************************)
(* is_game_over / winner                                                   *)
(***************************************************************************)
exists_piece(b, player) == \E sq \in Squares : piece_owner(get(b, sq[1], sq[2])) = player

\* mutant of is_game_over: the test for legal moves is left out
is_game_over_by_pieces(b) ==
    IF ~exists_piece(b, "RED") \/ ~exists_piece(b, "BLACK") THEN TRUE ELSE FALSE

is_game_over(b) ==
    IF ~exists_piece(b, "RED") \/ ~exists_piece(b, "BLACK") THEN TRUE
    ELSE IF legal_moves(b, "RED", TRUE) = << >> \/ legal_moves(b, "BLACK", TRUE) = << >>
         THEN TRUE
         ELSE FALSE

winner_by_pieces(b) ==
    IF ~exists_piece(b, "RED") /\ exists_piece(b, "BLACK") THEN "BLACK"
    ELSE IF ~exists_piece(b, "BLACK") /\ exists_piece(b, "RED") THEN "RED"
    ELSE "None"

\* winner: the player, or "None" for Python's None
winner_of(b) ==
    LET red_exists == exists_piece(b, "RED")
        black_exists == exists_piece(b, "BLACK")
    IN IF ~red_exists /\ black_exists THEN "BLACK"
       ELSE IF ~black_exists /\ red_exists THEN "RED"
       ELSE LET red_moves == legal_moves(b, "RED", TRUE) # << >>
                black_moves == legal_moves(b, "BLACK", TRUE) # << >>
            IN IF red_moves /\ ~black_moves THEN "RED"
               ELSE IF black_moves /\ ~red_moves THEN "BLACK"
               ELSE "None"

(***************************************************************************)
(* apply_move.  The result is the grid the call leaves behind and whether  *)
(* the call raised (ValueError of lines 153-158, or IndexError of a list   *)
(* access with an index outside -8..7).                                    *)
(***************************************************************************)
RECURSIVE apply_hops(_, _, _, _, _, _)
apply_hops(b, piece, move, idx, src_r, src_c) ==
    IF idx > Len(move)
    THEN \* lines 170-171
         IF IndexOK(src_r, src_c)
         THEN [grid |-> set(b, src_r, src_c, promote(piece, src_r)), raised |-> FALSE]
         ELSE [grid |-> b, raised |-> TRUE]
    ELSE LET dst_r == move[idx][1]
             dst_c == move[idx][2]
         IN IF Abs(dst_r - src_r) = 2 /\ Abs(dst_c - src_c) = 2
            THEN LET mid_r == (dst_r + src_r) \div 2
                     mid_c == (dst_c + src_c) \div 2
                 IN IF IndexOK(mid_r, mid_c)
                    THEN apply_hops(set(b, mid_r, mid_c, "EMPTY"), piece, move,
                                    idx + 1, dst_r, dst_c)
                    ELSE [grid |-> b, raised |-> TRUE]
            ELSE apply_hops(b, piece, move, idx + 1, dst_r, dst_c)

RECURSIVE apply_hops_keep(_, _, _, _, _, _)
apply_hops_keep(b, piece, move, idx, src_r, src_c) ==
    IF idx > Len(move)
    THEN IF IndexOK(src_r, src_c)
         THEN [grid |-> set(b, src_r, src_c, promote(piece, src_r)), raised |-> FALSE]
         ELSE [grid |-> b, raised |-> TRUE]
    ELSE apply_hops_keep(b, piece, move, idx + 1, move[idx][1], move[idx][2])

apply_move_keep(b, move) ==
    IF Len(move) < 2 THEN [grid |-> b, raised |-> TRUE]
    ELSE IF ~IndexOK(move[1][1], move[1][2]) THEN [grid |-> b, raised |-> TRUE]
    ELSE IF get(b, move[1][1], move[1][2]) = "EMPTY" THEN [grid |-> b, raised |-> TRUE]
    ELSE apply_hops_keep(set(b, move[1][1], move[1][2], "EMPTY"),
                         get(b, move[1][1], move[1][2]), move, 2, move[1][1], move[1][2])

apply_move_unchecked(b, move) ==
    IF Len(move) < 1 THEN [grid |-> b, raised |-> TRUE]
    ELSE IF ~IndexOK(move[1][1], move[1][2]) THEN [grid |-> b, raised |-> TRUE]
    ELSE apply_hops(set(b, move[1][1], move[1][2], "EMPTY"),
                    get(b, move[1][1], move[1][2]), move, 2, move[1][1], move[1][2])

apply_move(b, move) ==
    IF Len(move) < 2 THEN [grid |-> b, raised |-> TRUE]
    ELSE LET src_r == move[1][1]
             src_c == move[1][2]
         IN IF ~IndexOK(src_r, src_c) THEN [grid |-> b, raised |-> TRUE]
            ELSE LET piece == get(b, src_r, src_c)
                 IN IF piece = "EMPTY" THEN [grid |-> b, raised |-> TRUE]
                    ELSE apply_hops(set(b, src_r, src_c, "EMPTY"), piece, move, 2,
                                    src_r, src_c)

(***************************************************************************)
(* piece.py / board.py / game_logic.py                                     *)
(***************************************************************************)
None == [color |-> "None", king |-> FALSE]

\* Piece(color, king=False)
NewPiece(color) == [color |-> color, king |-> FALSE]

\* Piece.make_king
make_king(p) == [p EXCEPT !.king = TRUE]

\* board.Board._create_board
_create_board ==
    [sq \in Squares |->
        IF sq[1] < 3 /\ (sq[1] + sq[2]) % 2 = 1 THEN NewPiece("RED")
        ELSE IF sq[1] >= 5 /\ sq[1] < 8 /\ (sq[1] + sq[2]) % 2 = 1 THEN NewPiece("BLACK")
        ELSE None]

\* board.Board.get / set / remove: out of range reads None, writes nothing
Bget(b, r, c) == IF 0 <= r /\ r < 8 /\ 0 <= c /\ c < 8 THEN b[<< r, c >>] ELSE None
Bset(b, r, c, piece) ==
    IF 0 <= r /\ r < 8 /\ 0 <= c /\ c < 8 THEN [b EXCEPT ![<< r, c >>] = piece] ELSE b
Bremove(b, r, c) == Bset(b, r, c, None)

\* Game.in_bounds
g_in_bounds(r, c) == 0 <= r /\ r < 8 /\ 0 <= c /\ c < 8

\* the direction list of get_valid_moves (lines 37-41) and of its dfs (54-58)
g_dirs(p) ==
    IF p.king THEN << << -1, -1 >>, << -1, 1 >>, << 1, -1 >>, << 1, 1 >> >>
    ELSE LET step == IF p.color = "RED" THEN 1 ELSE -1
         IN << << step, -1 >>, << step, 1 >> >>

EmptyDict == [d \in {} |-> << >>]

\* lines 43-47: the dict of simple moves
g_simple(b, r, c) ==
    LET dirs == g_dirs(Bget(b, r, c))
        dests == { << r + dirs[i][1], c + dirs[i][2] >> : i \in
                     { j \in 1 .. Len(dirs) :
                         /\ g_in_bounds(r + dirs[j][1], c + dirs[j][2])
                         /\ Bget(b, r + dirs[j][1], c + dirs[j][2]) = None } }
    IN [d \in dests |-> << >>]

\* the guard of one direction of get_valid_moves.dfs (lines 61-70)
g_can_jump(board_state, sr, sc, dr, dc) ==
    LET piece == Bget(board_state, sr, sc)
        mid == Bget(board_state, sr + dr, sc + dc)
        land == Bget(board_state, sr + 2 * dr, sc + 2 * dc)
    IN /\ g_in_bounds(sr + dr, sc + dc) /\ g_in_bounds(sr + 2 * dr, sc + 2 * dc)
       /\ mid # None /\ mid.color # piece.color /\ land = None

\* lines 71-74
g_jump_board(board_state, sr, sc, dr, dc) ==
    LET b1 == Bset(board_state, sr + 2 * dr, sc + 2 * dc, Bget(board_state, sr, sc))
        b2 == Bremove(b1, sr, sc)
    IN Bremove(b2, sr + dr, sc + dc)

\* get_valid_moves.dfs: the entries appended to jumps, in the order of the
\* appends, each as [dest, captured]
RECURSIVE g_dfs(_, _, _, _)
g_dfs(sr, sc, board_state, captured) ==
    LET jdirs == g_dirs(Bget(board_state, sr, sc))
        branch(i) ==
            LET dr == jdirs[i][1]
                dc == jdirs[i][2]
                new_captured == Append(captured, << sr + dr, sc + dc >>)
            IN IF ~g_can_jump(board_state, sr, sc, dr, dc) THEN << >>
               ELSE Bind(g_dfs(sr + 2 * dr, sc + 2 * dc,
                               g_jump_board(board_state, sr, sc, dr, dc), new_captured),
                         LAMBDA more :
                            IF more = << >>
                            THEN << [dest |-> << sr + 2 * dr, sc + 2 * dc >>,
                                     captured |-> new_captured] >>
                            ELSE more)
    IN IF Len(jdirs) = 2 THEN branch(1) \o branch(2)
       ELSE branch(1) \o branch(2) \o branch(3) \o branch(4)

\* max(seqs, key=len): the first longest entry for a destination
RECURSIVE g_best(_, _, _)
g_best(entries, dest, i) ==
    IF i > Len(entries) THEN << >>
    ELSE LET rest == g_best(entries, dest, i + 1)
         IN IF entries[i].dest = dest /\ Len(entries[i].captured) >= Len(rest)
            THEN entries[i].captured
            ELSE rest

get_valid_moves(b, r, c) ==
    IF Bget(b, r, c) = None THEN EmptyDict
    ELSE Bind(g_dfs(r, c, b, << >>),
              LAMBDA jumps :
                 IF jumps # << >>
                 THEN [d \in { jumps[i].dest : i \in 1 .. Len(jumps) } |->
                          g_best(jumps, d, 1)]
                 ELSE g_simple(b, r, c))

\* Game.get_all_moves
get_all_moves(b, color) ==
    [sq \in { s \in Squares : /\ Bget(b, s[1], s[2]) # None
                              /\ Bget(b, s[1], s[2]).color = color
                              /\ get_valid_moves(b, s[1], s[2]) # EmptyDict }
        |-> get_valid_moves(b, sq[1], sq[2])]

(***************************************************************************)
(* Move generation of Game on board.Board objects: a heap is a sequence of *)
(* boards, Game.board is object 1.  Board.clone makes a new object with a  *)
(* deep copy (the Piece objects are copied too), set and remove change the *)
(* object they are called on.                                              *)
(***************************************************************************)
\* board.Board.clone
Bclone(h, id) == [heap |-> Append(h, h[id]), id |-> Len(h) + 1]

\* get_valid_moves.dfs on object id; k is the index of the direction the
\* loop of line 60 has reached; jumps lists the appends of line 80
RECURSIVE g_dfs_on(_, _, _, _, _, _, _, _)
g_dfs_on(h, id, sr, sc, captured, k, found, jumps) ==
    LET jdirs == g_dirs(Bget(h[id], sr, sc))
    IN IF k > Len(jdirs) THEN [heap |-> h, found |-> found, jumps |-> jumps]
       ELSE LET dr == jdirs[k][1]
                dc == jdirs[k][2]
                new_captured == Append(captured, << sr + dr, sc + dc >>)
            IN IF g_can_jump(h[id], sr, sc, dr, dc)
               THEN LET new_board == Bclone(h, id)
                        h1 == [new_board.heap EXCEPT
                                 ![new_board.id] = g_jump_board(@, sr, sc, dr, dc)]
                    IN Bind(g_dfs_on(h1, new_board.id, sr + 2 * dr, sc + 2 * dc,
                                     new_captured, 1, FALSE, jumps),
                            LAMBDA sub :
                               g_dfs_on(sub.heap, id, sr, sc, captured, k + 1, TRUE,
                                        IF ~sub.found
                                        THEN Append(sub.jumps,
                                                    [dest |-> << sr + 2 * dr, sc + 2 * dc >>,
                                                     captured |-> new_captured])
                                        ELSE sub.jumps))
               ELSE g_dfs_on(h, id, sr, sc, captured, k + 1, found, jumps)

\* get_valid_moves called on a Game whose board is object 1 (line 86:
\* dfs(r, c, self.board.clone(), []))
get_valid_moves_on(h, r, c) ==
    IF Bget(h[1], r, c) = None THEN [heap |-> h, found |-> FALSE, jumps |-> << >>]
    ELSE LET first == Bclone(h, 1)
         IN g_dfs_on(first.heap, first.id, r, c, << >>, 1, FALSE, << >>)

\* get_all_moves called on a Game with board b: the board of that Game after
\* the loop of lines 20-26
RECURSIVE get_all_moves_on(_, _, _)
get_all_moves_on(b, color, k) ==
    IF k >= 64 THEN b
    ELSE IF Bget(b, k \div 8, k % 8) = None \/ Bget(b, k \div 8, k % 8).color # color
         THEN get_all_moves_on(b, color, k + 1)
         ELSE get_all_moves_on(get_valid_moves_on(<< b >>, k \div 8, k % 8).heap[1],
                               color, k + 1)

RECURSIVE remove_all(_, _, _)
remove_all(b, captured, i) ==
    IF i > Len(captured) THEN b
    ELSE remove_all(Bremove(b, captured[i][1], captured[i][2]), captured, i + 1)

\* any(more.values())
any_values(more) == \E d \in DOMAIN more : more[d] # << >>

\* Game.move_piece, lines 111-123: the board after the move, the removal of
\* the captured pieces and kinging.  p.make_king() changes the object p,
\* which is on the board only where lines 111-116 left it.
mp_apply(b, start, end, captured) ==
    LET p == Bget(b, start[1], start[2])
        b1 == Bset(b, end[1], end[2], p)
        b2 == Bremove(b1, start[1], start[2])
        b3 == remove_all(b2, captured, 1)
        kinged == /\ ~p.king
                  /\ \/ (p.color = "RED" /\ end[1] = 7)
                     \/ (p.color = "BLACK" /\ end[1] = 0)
    IN IF kinged /\ b3[end] # None THEN [b3 EXCEPT ![end] = make_king(p)] ELSE b3

\* mutant of mp_finish: "if more:" in place of "if any(more.values()):"
mp_finish_if_more(b4, t, end, captured) ==
    IF captured # << >> /\ DOMAIN get_valid_moves(b4, end[1], end[2]) # {}
    THEN [board |-> b4, turn |-> t, ok |-> TRUE, info |-> "",
          continue |-> TRUE, pos |-> end]
    ELSE [board |-> b4, turn |-> Other(t), ok |-> TRUE, info |-> "",
          continue |-> FALSE, pos |-> NoSquare]

mp_finish_flip(b4, t, end, captured) ==
    IF captured # << >> /\ any_values(get_valid_moves(b4, end[1], end[2]))
    THEN [board |-> b4, turn |-> Other(t), ok |-> TRUE, info |-> "",
          continue |-> TRUE, pos |-> end]
    ELSE [board |-> b4, turn |-> Other(t), ok |-> TRUE, info |-> "",
          continue |-> FALSE, pos |-> NoSquare]

\* Game.move_piece, lines 125-134: continuation or change of turn
mp_finish(b4, t, end, captured) ==
    IF captured # << >> /\ any_values(get_valid_moves(b4, end[1], end[2]))
    THEN [board |-> b4, turn |-> t, ok |-> TRUE, info |-> "",
          continue |-> TRUE, pos |-> end]
    ELSE [board |-> b4, turn |-> Other(t), ok |-> TRUE, info |-> "",
          continue |-> FALSE, pos |-> NoSquare]

mp_reject_late(b, t, start, end, info) ==
    [board |-> Bremove(b, start[1], start[2]), turn |-> t, ok |-> FALSE, info |-> info,
     continue |-> FALSE, pos |-> NoSquare]

\* Game.move_piece, lines 103 and 107: the call is refused
mp_reject(b, t, start, end, info) ==
    [board |-> b, turn |-> t, ok |-> FALSE, info |-> info,
     continue |-> FALSE, pos |-> NoSquare]

\* Game.move_piece: the board and turn it leaves and the pair it returns
move_piece(b, t, start, end) ==
    LET p == Bget(b, start[1], start[2])
    IN IF p = None \/ p.color # t
       THEN mp_reject(b, t, start, end, "Invalid piece")
       ELSE Bind(get_valid_moves(b, start[1], start[2]),
                 LAMBDA valid :
                    IF end \notin DOMAIN valid
                    THEN mp_reject(b, t, start, end, "Invalid move")
                    ELSE mp_finish(mp_apply(b, start, end, valid[end]), t, end,
                                   valid[end]))

(***************************************************************************)
(* Starting positions.  Besides the two standard layouts, a behaviour may  *)
(* start from a middle-game position: men and kings of one side on ASites  *)
(* (that side moves towards row 0), men of the other side on BSites, or    *)
(* that position turned by 180 degrees with the sides exchanged.  All      *)
(* sites are dark squares.                                                 *)
(***************************************************************************)
ASites == { << 2, 1 >>, << 4, 3 >> }
BSites == { << 1, 2 >>, << 1, 4 >>, << 3, 2 >>, << 3, 4 >> }
Sites == ASites \cup BSites

Patterns ==
    { f \in [Sites -> {"none", "man", "king"}] :
        /\ \A s \in BSites : f[s] # "king"
        /\ Cardinality({ s \in Sites : f[s] # "none" }) <= MaxPieces }

Turned(sq, rot) == IF rot THEN << BOARD_SIZE - 1 - sq[1], BOARD_SIZE - 1 - sq[2] >> ELSE sq

\* the side that moves towards row 0 is RED in checkersEngine, BLACK in Game
PatternGrid(f, rot) ==
    [sq \in Squares |->
        LET s == Turned(sq, rot)
            up == IF rot THEN "BLACK" ELSE "RED"
            color == IF s \in ASites THEN up ELSE Other(up)
        IN IF s \notin Sites \/ f[s] = "none" THEN "EMPTY"
           ELSE IF f[s] = "king" THEN (IF color = "RED" THEN "RED_KING" ELSE "BLACK_KING")
           ELSE color]

PatternBoard(f, rot) ==
    [sq \in Squares |->
        LET s == Turned(sq, rot)
            up == IF rot THEN "RED" ELSE "BLACK"
            color == IF s \in ASites THEN up ELSE Other(up)
        IN IF s \notin Sites \/ f[s] = "none" THEN None
           ELSE [color |-> color, king |-> (f[s] = "king")]]

\* End-game positions of checkersEngine in which a side cannot move.
GridOf(redMen, blackMen, blackKings) ==
    [sq \in Squares |->
        IF sq \in redMen THEN "RED"
        ELSE IF sq \in blackMen THEN "BLACK"
        ELSE IF sq \in blackKings THEN "BLACK_KING"
        ELSE "EMPTY"]

\* a RED man shut in by a BLACK man; the same with the sides exchanged
RedShutIn == GridOf({ << 1, 0 >> }, { << 0, 1 >> }, {})
BlackShutIn == GridOf({ << 7, 6 >> }, { << 6, 7 >> }, {})
\* a BLACK king one step away from shutting in the RED man
RedNearlyShutIn == GridOf({ << 1, 0 >> }, {}, { << 1, 2 >> })
\* neither side can move
BothShutIn ==
    GridOf({ << 1, 0 >>, << 1, 2 >>, << 1, 4 >>, << 1, 6 >>,
             << 2, 1 >>, << 2, 3 >>, << 2, 5 >>, << 2, 7 >> },
           { << 0, 1 >>, << 0, 3 >>, << 0, 5 >>, << 0, 7 >> }, {})

EndGrids == { RedShutIn, BlackShutIn, RedNearlyShutIn, BothShutIn }

\* the same position for Game, where the side moving towards row 0 is BLACK
BoardOf(g) ==
    [sq \in Squares |->
        IF g[sq] = "EMPTY" THEN None
        ELSE [color |-> Other(piece_owner(g[sq])), king |-> is_king(g[sq])]]

StartGrids ==
    {setup_initial} \cup { PatternGrid(f, rot) : f \in Patterns, rot \in BOOLEAN }
                    \cup EndGrids
StartBoards ==
    {_create_board} \cup { PatternBoard(f, rot) : f \in Patterns, rot \in BOOLEAN }
                    \cup { BoardOf(g) : g \in EndGrids }

NoLast == [op |-> "none", ok |-> TRUE, player |-> "None", move |-> << >>,
           piece |-> "EMPTY", cont |-> FALSE, why |-> "none", off |-> FALSE,
           name |-> << >>, pos |-> NoSquare]

IdleEngine == grid = setup_initial
IdleGui == /\ current_player = "RED"
           /\ local_side = "None"
           /\ selected = NoSquare
           /\ valid_moves_cache = << >>
IdleUi == /\ must_continue = FALSE
          /\ continue_pos = NoSquare
NoLine == [head |-> "", coords |-> << >>]
NoLink == [server |-> "none", client |-> "none"]
IdleRelay == /\ fwd = << >>
             /\ sock = << >>
             /\ inbox = << >>
             /\ gone = << >>
             /\ sent = << >>
             /\ relayed = << >>
             /\ server = "none"
IdlePeers == /\ peers = << >>
             /\ wire = << >>
             /\ link = NoLink
IdlePump == /\ _network_msg_queue = << >>
            /\ pump_pc = "idle"
            /\ msg = NoLine
            /\ arrived = << >>
            /\ handled = << >>
IdleRecv == /\ stream = << >>
            /\ chunks = << >>
            /\ buffer = << >>
            /\ delivered = << >>
            /\ running = FALSE
IdleGame == /\ board = _create_board
            /\ turn = "RED"
            /\ winner = "None"
            /\ pending = NoSquare

SeqToSet(s) == { s[i] : i \in 1 .. Len(s) }

(***************************************************************************)
(* checkersEngine.py : coord_to_pos / pos_to_coord.  A name is a sequence  *)
(* of one-character strings.                                               *)
(***************************************************************************)
LowerLetters == << "a", "b", "c", "d", "e", "f", "g", "h", "i" >>
UpperLetters == << "A", "B", "C", "D", "E", "F", "G", "H", "I" >>
DigitChars   == << "0", "1", "2", "3", "4", "5", "6", "7", "8", "9" >>

IndexIn(seq, ch) == CHOOSE i \in 1 .. Len(seq) : seq[i] = ch

\* str.lower on one character
Lower(ch) ==
    IF ch \in SeqToSet(UpperLetters) THEN LowerLetters[IndexIn(UpperLetters, ch)] ELSE ch

\* ord on the characters of the model: '0' is 48, 'A' is 65, '_' is 95,
\* 'a' is 97, 'x' is 120
Ord(ch) ==
    IF ch \in SeqToSet(LowerLetters) THEN 96 + IndexIn(LowerLetters, ch)
    ELSE IF ch \in SeqToSet(UpperLetters) THEN 64 + IndexIn(UpperLetters, ch)
    ELSE IF ch \in SeqToSet(DigitChars) THEN 47 + IndexIn(DigitChars, ch)
    ELSE IF ch = "_" THEN 95
    ELSE 120

\* chr on the codes of the characters of the model
Chr(n) ==
    IF n >= 97 /\ n <= 105 THEN LowerLetters[n - 96]
    ELSE IF n >= 65 /\ n <= 73 THEN UpperLetters[n - 64]
    ELSE IF n >= 48 /\ n <= 57 THEN DigitChars[n - 47]
    ELSE IF n = 95 THEN "_"
    ELSE IF n = 120 THEN "x"
    ELSE "?"

\* str(n) of an integer
RECURSIVE DecStr(_)
DecStr(n) ==
    IF n < 0 THEN << "-" >> \o DecStr(-n)
    ELSE IF n < 10 THEN << DigitChars[n + 1] >>
    ELSE DecStr(n \div 10) \o << DigitChars[(n % 10) + 1] >>

coord_to_pos_same_row(s) ==
    IF Len(s) < 2 THEN [ok |-> FALSE, pos |-> NoSquare]
    ELSE IF s[2] \notin SeqToSet(DigitChars) THEN [ok |-> FALSE, pos |-> NoSquare]
    ELSE [ok |-> TRUE,
          pos |-> << (IndexIn(DigitChars, s[2]) - 1) - 1, Ord(Lower(s[1])) - Ord("a") >>]

\* coord_to_pos: s[0] and s[1] raise IndexError on a short name, int() raises
\* ValueError on a character that is no digit
coord_to_pos(s) ==
    IF Len(s) < 2 THEN [ok |-> FALSE, pos |-> NoSquare]
    ELSE IF s[2] \notin SeqToSet(DigitChars) THEN [ok |-> FALSE, pos |-> NoSquare]
    ELSE LET col == Ord(Lower(s[1])) - Ord("a")
             row == (IndexIn(DigitChars, s[2]) - 1) - 1
             r == BOARD_SIZE - 1 - row
             c == col
         IN [ok |-> TRUE, pos |-> << r, c >>]

pos_to_coord(pos) ==
    LET r == pos[1]
        c == pos[2]
        row1 == BOARD_SIZE - r
        col == Chr(Ord("a") + c)
    IN << col >> \o DecStr(row1)


(***************************************************************************)
(* SpecNotation: coord_to_pos and pos_to_coord on drawn names and          *)
(* positions; each action applies one conversion to the value the          *)
(* behaviour holds, so that a conversion can follow the other one.         *)
(***************************************************************************)
MaxConversions == 3     \* conversions applied in one behaviour

NameChars == { "a", "h", "i", "A", "H", "_", "x", "0", "1", "8", "9" }

\* the names given to coord_to_pos: every name of at most two characters,
\* and two longer ones
GivenNames ==
    { << >> } \cup { << ch >> : ch \in NameChars }
              \cup { << ch, d >> : ch \in NameChars, d \in NameChars }
              \cup { << "a", "1", "0" >>, << "b", "2", "x" >> }

\* the positions given to pos_to_coord: the board and a margin around it
GivenPositions == (-2 .. 9) \X (0 .. 8)

InitNotation ==
    /\ app = "notation"
    /\ IdleEngine /\ IdleGui /\ IdleUi /\ IdleRecv /\ IdlePump /\ IdleRelay /\ IdlePeers /\ IdleGame
    /\ steps = 0
    /\ \/ \E s \in GivenNames : last = [NoLast EXCEPT !.op = "name", !.name = s]
       \/ \E p \in GivenPositions : last = [NoLast EXCEPT !.op = "pos", !.pos = p]

\* coord_to_pos(last.name)
CoordToPos ==
    /\ app = "notation"
    /\ steps < MaxConversions
    /\ last.op \in { "name", "pos_to_coord" }
    /\ \E res \in { coord_to_pos(last.name) } :
         last' = [last EXCEPT !.op = "coord_to_pos", !.ok = res.ok, !.pos = res.pos]
    /\ steps' = steps + 1
    /\ UNCHANGED << app, relayVars, peerVars, uiVars, recvVars, pumpVars, engineVars, guiVars, gameVars >>

\* pos_to_coord(last.pos)
PosToCoord ==
    /\ app = "notation"
    /\ steps < MaxConversions
    /\ last.op \in { "pos", "coord_to_pos" }
    /\ last.ok
    /\ last' = [last EXCEPT !.op = "pos_to_coord", !.name = pos_to_coord(last.pos)]
    /\ steps' = steps + 1
    /\ UNCHANGED << app, relayVars, peerVars, uiVars, recvVars, pumpVars, engineVars, guiVars, gameVars >>

NextNotation == CoordToPos \/ PosToCoord

SpecNotation == InitNotation /\ [][NextNotation]_vars

(***************************************************************************)
(* SpecEngine: checkersEngine on every starting position; one action       *)
(* applies a move returned by legal_moves.                                 *)
(***************************************************************************)
InitEngine ==
    /\ app = "engine"
    /\ grid \in StartGrids
    /\ IdleGui /\ IdleUi /\ IdleRecv /\ IdlePump /\ IdleRelay /\ IdlePeers /\ IdleGame
    /\ last = NoLast
    /\ steps = 0

ApplyLegalMove ==
    /\ app = "engine"
    /\ steps < MaxMoves
    /\ \E player \in Player, max_capture \in BOOLEAN :
         \E m \in SeqToSet(legal_moves(grid, player, max_capture)) :
         \E res \in { apply_move(grid, m) } :
            /\ grid' = res.grid
            /\ last' = [NoLast EXCEPT !.op = "apply_move",
                                      !.ok = ~res.raised,
                                      !.player = player,
                                      !.move = m,
                                      !.piece = get(grid, m[1][1], m[1][2])]
    /\ steps' = steps + 1
    /\ UNCHANGED << app, relayVars, peerVars, uiVars, recvVars, pumpVars, guiVars, gameVars >>

\* the squares a search is started from: every occupied square and one
\* free square
Probed(occupied) == occupied \cup { CHOOSE sq \in Squares : sq \notin occupied }

\* _find_captures_from called on the Board for a square
FindCapturesFrom ==
    /\ app = "engine"
    /\ steps < MaxMoves
    /\ \E sq \in Probed({ s \in Squares : grid[s] # "EMPTY" }) :
       \E res \in { _find_captures_from_on(<< grid >>, sq[1], sq[2]) } :
            /\ grid' = res.heap[1]
            /\ last' = [NoLast EXCEPT !.op = "_find_captures_from"]
    /\ steps' = steps + 1
    /\ UNCHANGED << app, relayVars, peerVars, uiVars, recvVars, pumpVars, guiVars, gameVars >>

\* legal_moves called on the Board for either player
LegalMoves ==
    /\ app = "engine"
    /\ steps < MaxMoves
    /\ \E player \in Player :
            /\ grid' = legal_moves_on(grid, player, 0)
            /\ last' = [NoLast EXCEPT !.op = "legal_moves"]
    /\ steps' = steps + 1
    /\ UNCHANGED << app, relayVars, peerVars, uiVars, recvVars, pumpVars, guiVars, gameVars >>

NextEngine == ApplyLegalMove

SpecEngine == InitEngine /\ [][NextEngine]_vars

(***************************************************************************)
(* SpecApply: checkersEngine with apply_move called by a caller that does  *)
(* not take its path from legal_moves.                                     *)
(***************************************************************************)
\* the paths such a caller gives: the empty path, paths of one square, and
\* paths that start on an empty square next to a piece and step onto that
\* piece, jump over it, or jump over it and back
GivenPaths(b) ==
    LET occupied == { s \in Squares : b[s] # "EMPTY" }
        hops == { h \in Squares \X (1 .. 4) :
                    /\ b[h[1]] = "EMPTY"
                    /\ << h[1][1] + directions[h[2]][1],
                          h[1][2] + directions[h[2]][2] >> \in occupied
                    /\ << h[1][1] + 2 * directions[h[2]][1],
                          h[1][2] + 2 * directions[h[2]][2] >> \in Squares }
        near(h) == << h[1][1] + directions[h[2]][1], h[1][2] + directions[h[2]][2] >>
        far(h) == << h[1][1] + 2 * directions[h[2]][1],
                     h[1][2] + 2 * directions[h[2]][2] >>
    IN { << >> }
       \cup { << s >> : s \in Probed(occupied) }
       \cup { << h[1], near(h) >> : h \in hops }
       \cup { << h[1], far(h) >> : h \in hops }
       \cup { << h[1], far(h), h[1] >> : h \in hops }

\* apply_move called with a given path
ApplyGivenMove ==
    /\ app = "engine"
    /\ steps < MaxMoves
    /\ \E m \in GivenPaths(grid) :
       \E res \in { apply_move(grid, m) } :
            /\ grid' = res.grid
            /\ last' = [NoLast EXCEPT !.op = "apply_move_given",
                                      !.ok = ~res.raised,
                                      !.move = m]
    /\ steps' = steps + 1
    /\ UNCHANGED << app, relayVars, peerVars, uiVars, recvVars, pumpVars, guiVars, gameVars >>

SpecApply == InitEngine /\ [][NextEngine \/ ApplyGivenMove]_vars

(***************************************************************************)
(* SpecGame: game_logic.Game on every starting position; move_piece is     *)
(* called with start and end squares of every kind.                        *)
(***************************************************************************)
InitGame ==
    /\ app = "game"
    /\ board \in StartBoards
    /\ turn \in {"RED", "BLACK"}
    /\ winner = "None"
    /\ pending = NoSquare
    /\ IdleEngine /\ IdleGui /\ IdleUi /\ IdleRecv /\ IdlePump /\ IdleRelay /\ IdlePeers
    /\ last = NoLast
    /\ steps = 0

\* the end squares tried for a start square: the square itself, the squares
\* one diagonal step away, and every destination on offer
EndsFor(b, start) ==
    { sq \in Squares : /\ Abs(sq[1] - start[1]) = Abs(sq[2] - start[2])
                       /\ Abs(sq[1] - start[1]) <= 1 }
    \cup DOMAIN get_valid_moves(b, start[1], start[2])

\* the first square, in row order, of a set of squares
FirstOf(S) == CHOOSE sq \in S : \A o \in S : sq[1] * 8 + sq[2] <= o[1] * 8 + o[2]

\* the start squares tried: every piece of the side to move, one piece of
\* the other side and one empty square
StartsFor(b, t) ==
    LET own == { sq \in Squares : b[sq].color = t }
        opp == { sq \in Squares : b[sq].color = Other(t) }
        free == { sq \in Squares : b[sq] = None }
    IN own \cup (IF opp = {} THEN {} ELSE {FirstOf(opp)})
           \cup (IF free = {} THEN {} ELSE {FirstOf(free)})

\* why a call has to be refused, read off the arguments
Refusal(b, t, start, end) ==
    IF b[start] = None THEN "empty origin"
    ELSE IF b[start].color # t THEN "wrong side"
    ELSE IF end \notin DOMAIN get_valid_moves(b, start[1], start[2]) THEN "bad destination"
    ELSE "none"

MovePiece ==
    /\ app = "game"
    /\ steps < MaxCalls
    /\ \E start \in StartsFor(board, turn) :
       \E end \in (IF board[start].color # turn
                   THEN { << start[1], (start[2] + 1) % 8 >> }
                   ELSE EndsFor(board, start)) :
       \E res \in { move_piece(board, turn, start, end) } :
            /\ board' = res.board
            /\ turn' = res.turn
            /\ pending' = IF res.ok THEN res.pos ELSE pending
            /\ last' = [NoLast EXCEPT
                          !.op = "move_piece",
                          !.ok = res.ok,
                          !.player = turn,
                          !.move = IF res.ok THEN << start, end >> ELSE << >>,
                          !.piece = IF res.ok THEN board[start] ELSE None,
                          !.cont = res.continue,
                          !.why = Refusal(board, turn, start, end),
                          !.off = (pending # NoSquare /\ start # pending)]
            /\ steps' = IF res.ok THEN steps + 1 ELSE steps
    /\ UNCHANGED << app, relayVars, peerVars, uiVars, recvVars, pumpVars, winner, engineVars, guiVars >>

\* Game.reset
GameReset ==
    /\ app = "game"
    /\ steps > 0
    /\ board' = _create_board
    /\ turn' = "RED"
    /\ winner' = "None"
    /\ pending' = NoSquare
    /\ last' = [NoLast EXCEPT !.op = "reset"]
    /\ UNCHANGED << app, relayVars, peerVars, uiVars, recvVars, pumpVars, steps, engineVars, guiVars >>

\* Game.get_valid_moves called for a square
GetValidMoves ==
    /\ app = "game"
    /\ steps < MaxCalls
    /\ \E sq \in Probed({ s \in Squares : board[s] # None }) :
       \E res \in { get_valid_moves_on(<< board >>, sq[1], sq[2]) } :
            /\ board' = res.heap[1]
            /\ last' = [NoLast EXCEPT !.op = "get_valid_moves"]
    /\ steps' = steps + 1
    /\ UNCHANGED << app, relayVars, peerVars, uiVars, recvVars, pumpVars, turn, winner, pending, engineVars, guiVars >>

\* Game.get_all_moves called for either colour
GetAllMoves ==
    /\ app = "game"
    /\ steps < MaxCalls
    /\ \E color \in Player :
            /\ board' = get_all_moves_on(board, color, 0)
            /\ last' = [NoLast EXCEPT !.op = "get_all_moves"]
    /\ steps' = steps + 1
    /\ UNCHANGED << app, relayVars, peerVars, uiVars, recvVars, pumpVars, turn, winner, pending, engineVars, guiVars >>

NextGame == MovePiece \/ GameReset

SpecGame == InitGame /\ [][NextGame]_vars

(***************************************************************************)
(* SpecRules: both rule engines.                                           *)
(***************************************************************************)
SpecRules == (InitEngine \/ InitGame) /\ [][NextEngine \/ NextGame]_vars

(***************************************************************************)
(* SpecSearch: both rule engines, with the move generators called on their *)
(* own between the moves.                                                  *)
(***************************************************************************)
NextSearch ==
    \/ NextEngine \/ FindCapturesFrom \/ LegalMoves
    \/ NextGame \/ GetValidMoves \/ GetAllMoves

SpecSearch == (InitEngine \/ InitGame) /\ [][NextSearch]_vars

(***************************************************************************)
(* SpecGenerate: the move generators of both rule engines called on every  *)
(* starting position.                                                      *)
(***************************************************************************)
NextGenerate == FindCapturesFrom \/ LegalMoves \/ GetValidMoves \/ GetAllMoves

SpecGenerate == (InitEngine \/ InitGame) /\ [][NextGenerate]_vars

(***************************************************************************)
(* checkersGUINetworked.py : NetworkedCheckersApp.  A received line is a   *)
(* record of its head ("MOVE ", "MSG " or anything else) and, after        *)
(* raw[5:].strip().split('-'), the names of its squares.                   *)
(***************************************************************************)
MoveLine(m) == [head |-> "MOVE ", coords |-> [i \in 1 .. Len(m) |-> pos_to_coord(m[i])]]

\* lines a peer that does not follow the rules may send
BadLines ==
    { [head |-> "MOVE ", coords |-> << << "a", "5" >>, << "b", "4" >> >>],   \* empty origin
      [head |-> "MOVE ", coords |-> << << "a", "3" >>, << "a", "4" >> >>],   \* not diagonal
      [head |-> "MOVE ", coords |-> << << "b", "2" >>, << "c", "3" >> >>],   \* blocked
      [head |-> "MOVE ", coords |-> << << "a", "3" >>, << "a", "9" >> >>],   \* row 9
      [head |-> "MOVE ", coords |-> << << "a", "3" >>, << "i", "4" >> >>],   \* column i
      [head |-> "MOVE ", coords |-> << << "_", "2" >>, << "h", "3" >> >>],   \* column -2
      [head |-> "MOVE ", coords |-> << << "a", "3" >> >>],                   \* one square
      [head |-> "MOVE ", coords |-> << << >> >>],                            \* no square
      [head |-> "MOVE ", coords |-> << << "a", "x" >>, << "b", "4" >> >>],   \* no digit
      [head |-> "MSG ", coords |-> << >>],
      [head |-> "PING", coords |-> << >>] }

\* _handle_network_msg line 123: the positions, or a failure of alg_to_pos
Positions(coords) == [i \in 1 .. Len(coords) |-> coord_to_pos(coords[i]).pos]
PositionsOK(coords) == \A i \in 1 .. Len(coords) : coord_to_pos(coords[i]).ok

\* select_square, lines 192-198; all_moves is the list of line 194,
\* self.board.legal_moves(self.current_player)
select_square(all_moves, pos) ==
    LET starts_here(m) == m[1] = pos
        cache == SelectSeq(all_moves, starts_here)
    IN [selected |-> IF cache = << >> THEN NoSquare ELSE pos, cache |-> cache]

\* on_click lines 164-165: the first cached move from selected to pos
ClickMatches(cache, sel, pos) ==
    { i \in 1 .. Len(cache) : cache[i][1] = sel /\ cache[i][Len(cache[i])] = pos }
FirstMatch(cache, sel, pos) ==
    cache[CHOOSE i \in ClickMatches(cache, sel, pos) :
            \A j \in ClickMatches(cache, sel, pos) : i <= j]

InitNet ==
    /\ app = "net"
    /\ grid = setup_initial
    /\ IdleGui /\ IdleUi /\ IdleRecv /\ IdlePump /\ IdleRelay /\ IdlePeers /\ IdleGame
    /\ last = NoLast
    /\ steps = 0

\* NetworkedCheckersApp.host
Host ==
    /\ app = "net"
    /\ local_side' = "RED"
    /\ UNCHANGED << app, relayVars, peerVars, uiVars, recvVars, pumpVars, grid, current_player, selected, valid_moves_cache, gameVars,
                    last, steps >>

\* NetworkedCheckersApp.connect
Connect ==
    /\ app = "net"
    /\ local_side' = "BLACK"
    /\ UNCHANGED << app, relayVars, peerVars, uiVars, recvVars, pumpVars, grid, current_player, selected, valid_moves_cache, gameVars,
                    last, steps >>

\* NetworkedCheckersApp.reset_board
ResetBoard ==
    /\ app = "net"
    /\ steps > 0
    /\ grid' = setup_initial
    /\ current_player' = "RED"
    /\ selected' = NoSquare
    /\ valid_moves_cache' = << >>
    /\ last' = [NoLast EXCEPT !.op = "reset_board"]
    /\ UNCHANGED << app, relayVars, peerVars, uiVars, recvVars, pumpVars, local_side, gameVars, steps >>

\* the squares clicked: every dark square and one light square
ClickSquares == { sq \in Squares : is_dark_square(sq[1], sq[2]) } \cup { << 0, 0 >> }

\* NetworkedCheckersApp.on_click on square pos
OnClick ==
    /\ app = "net"
    /\ \E all_moves \in { legal_moves(grid, current_player, TRUE) } :
       \E pos \in ClickSquares :
         LET owner == piece_owner(grid[pos])
             sel == select_square(all_moves, pos)
         IN IF local_side # "None" /\ local_side # current_player
            THEN \* "Not your turn."
                 UNCHANGED << grid, guiVars, last, steps >>
            ELSE IF selected # NoSquare /\ ClickMatches(valid_moves_cache, selected, pos) # {}
            THEN LET m == FirstMatch(valid_moves_cache, selected, pos)
                 IN \E res \in { apply_move(grid, m) } :
                    /\ steps < MaxEvents
                    /\ grid' = res.grid
                    /\ IF res.raised
                       THEN UNCHANGED << current_player, selected, valid_moves_cache >>
                       ELSE /\ current_player' = Other(current_player)
                            /\ selected' = NoSquare
                            /\ valid_moves_cache' = << >>
                    /\ last' = [NoLast EXCEPT !.op = "click_move", !.ok = ~res.raised,
                                              !.player = current_player, !.move = m,
                                              !.piece = grid[m[1]]]
                    /\ steps' = steps + 1
                    /\ UNCHANGED local_side
            ELSE IF owner = current_player
            THEN /\ selected' = sel.selected
                 /\ valid_moves_cache' = sel.cache
                 /\ UNCHANGED << grid, current_player, local_side, last, steps >>
            ELSE /\ selected' = (IF selected # NoSquare THEN NoSquare ELSE selected)
                 /\ valid_moves_cache' =
                        (IF selected # NoSquare THEN << >> ELSE valid_moves_cache)
                 /\ UNCHANGED << grid, current_player, local_side, last, steps >>
    /\ UNCHANGED << app, relayVars, peerVars, uiVars, recvVars, pumpVars, gameVars >>

\* the lines the peer may send in the current position: a move of either
\* side that the rules allow, a quiet step of the side to move, or a bad line
RemoteLines(g, player, legal) ==
    { MoveLine(m) : m \in SeqToSet(legal)
                          \cup SeqToSet(legal_moves(g, Other(player), TRUE))
                          \cup SeqToSet(scan_quiets(g, player, 0)) }
    \cup BadLines

\* the path of a MOVE line is one of the legal moves
LineIsLegal(legal, raw) ==
    /\ raw.head = "MOVE "
    /\ PositionsOK(raw.coords)
    /\ Positions(raw.coords) \in SeqToSet(legal)

\* _handle_network_msg, called by _pump_network_messages inside try/except:
\* the grid, the player and the selection the call leaves
_handle_network_msg(g, player, sel, cache, raw) ==
    IF raw.head = "MOVE " /\ PositionsOK(raw.coords)
    THEN LET res == apply_move(g, Positions(raw.coords))
         IN IF res.raised
            THEN [grid |-> res.grid, current_player |-> player,
                  selected |-> sel, cache |-> cache]
            ELSE [grid |-> res.grid, current_player |-> Other(player),
                  selected |-> NoSquare, cache |-> << >>]
    ELSE [grid |-> g, current_player |-> player, selected |-> sel, cache |-> cache]

HandleNetworkMsg ==
    /\ app = "net"
    /\ steps < MaxEvents
    /\ \E legal \in { legal_moves(grid, current_player, TRUE) } :
       \E raw \in RemoteLines(grid, current_player, legal) :
       \E res \in { _handle_network_msg(grid, current_player, selected,
                                         valid_moves_cache, raw) } :
       \E isLegal \in { LineIsLegal(legal, raw) } :
               /\ grid' = res.grid
               /\ current_player' = res.current_player
               /\ selected' = res.selected
               /\ valid_moves_cache' = res.cache
               /\ last' = [NoLast EXCEPT
                             !.op = "net_msg",
                             !.ok = isLegal,
                             !.player = current_player,
                             !.why = IF raw.head # "MOVE " THEN "no move"
                                     ELSE IF isLegal THEN "none"
                                     ELSE "illegal path"]
    /\ steps' = steps + 1
    /\ UNCHANGED << app, relayVars, peerVars, uiVars, recvVars, pumpVars, local_side, gameVars >>

NextNet == Host \/ Connect \/ ResetBoard \/ OnClick \/ HandleNetworkMsg

SpecNet == InitNet /\ [][NextNet]_vars

(***************************************************************************)
(* SpecFresh: the two programs from their construction: tkinter_ui.py      *)
(* makes a Game(), checkersGUINetworked.py makes a Board().  The peer of   *)
(* the networked GUI sends nothing: the board changes by clicks and by     *)
(* Reset Board only.                                                       *)
(***************************************************************************)
\* Game.__init__
InitNewGame ==
    /\ app = "game"
    /\ IdleGame
    /\ IdleEngine /\ IdleGui /\ IdleUi /\ IdleRecv /\ IdlePump /\ IdleRelay /\ IdlePeers
    /\ last = NoLast
    /\ steps = 0

NextFresh == Host \/ Connect \/ ResetBoard \/ OnClick \/ NextGame

SpecFresh == (InitNet \/ InitNewGame) /\ [][NextFresh]_vars

(***************************************************************************)
(* checkersGUINetworked.py : the two threads of one NetworkedCheckersApp   *)
(* after host() or connect().  The receive thread of networkTCP calls      *)
(* on_msg for each line; the main thread runs the click handlers and, from *)
(* root.after, _pump_network_messages, which is modelled statement by      *)
(* statement: pump_pc is "idle" between two runs of the event loop.        *)
(***************************************************************************)
\* the lines the peer sends: the first move the rules allow, a MOVE line
\* that makes apply_move raise, and a line that is no MOVE
PumpLines(legal) ==
    { MoveLine(legal[i]) : i \in { k \in DOMAIN legal : k = 1 } }
    \cup { [head |-> "MOVE ", coords |-> << << "a", "3" >>, << "i", "4" >> >>],
           [head |-> "MSG ", coords |-> << >>] }

\* mutant of pop0: list.pop() takes the newest line
pop0_newest(queue) ==
    [msg |-> queue[Len(queue)], queue |-> SubSeq(queue, 1, Len(queue) - 1)]

\* on_msg (host, connect): self._network_msg_queue.append(msg)
on_msg(queue, line) == Append(queue, line)

\* self._network_msg_queue.pop(0)
pop0(queue) == [msg |-> Head(queue), queue |-> Tail(queue)]

InitPump ==
    /\ app = "net"
    /\ grid = setup_initial
    /\ current_player = "RED"
    /\ local_side \in Player
    /\ selected = NoSquare
    /\ valid_moves_cache = << >>
    /\ IdleUi /\ IdleRecv /\ IdlePump /\ IdleRelay /\ IdlePeers /\ IdleGame
    /\ last = NoLast
    /\ steps = 0

\* receive thread: TCPConnection._recv_loop calls on_message(line) = on_msg
OnMsg ==
    /\ app = "net"
    /\ steps < MaxEvents
    /\ \E legal \in { legal_moves(grid, current_player, TRUE) } :
       \E line \in PumpLines(legal) :
          /\ _network_msg_queue' = on_msg(_network_msg_queue, line)
          /\ arrived' = Append(arrived, line)
    /\ steps' = steps + 1
    /\ UNCHANGED << app, relayVars, peerVars, uiVars, recvVars, pump_pc, msg, handled, engineVars, guiVars,
                    gameVars, last >>

\* main thread: root.after calls _pump_network_messages
PumpStart ==
    /\ app = "net"
    /\ pump_pc = "idle"
    /\ pump_pc' = "while"
    /\ UNCHANGED << app, relayVars, peerVars, uiVars, recvVars, _network_msg_queue, msg, arrived, handled,
                    engineVars, guiVars, gameVars, last, steps >>

\* while self._network_msg_queue: ... ; self.root.after(100, ...)
PumpWhile ==
    /\ app = "net"
    /\ pump_pc = "while"
    /\ pump_pc' = IF _network_msg_queue # << >> THEN "pop" ELSE "idle"
    /\ UNCHANGED << app, relayVars, peerVars, uiVars, recvVars, _network_msg_queue, msg, arrived, handled,
                    engineVars, guiVars, gameVars, last, steps >>

\* msg = self._network_msg_queue.pop(0)
PumpPop ==
    /\ app = "net"
    /\ pump_pc = "pop"
    /\ \E res \in { pop0(_network_msg_queue) } :
          /\ msg' = res.msg
          /\ _network_msg_queue' = res.queue
    /\ pump_pc' = "handle"
    /\ UNCHANGED << app, relayVars, peerVars, uiVars, recvVars, arrived, handled, engineVars, guiVars,
                    gameVars, last, steps >>

\* try: self._handle_network_msg(msg) except Exception: print
PumpHandle ==
    /\ app = "net"
    /\ pump_pc = "handle"
    /\ \E res \in { _handle_network_msg(grid, current_player, selected,
                                         valid_moves_cache, msg) } :
          /\ grid' = res.grid
          /\ current_player' = res.current_player
          /\ selected' = res.selected
          /\ valid_moves_cache' = res.cache
    /\ handled' = Append(handled, msg)
    /\ msg' = NoLine
    /\ pump_pc' = "while"
    /\ UNCHANGED << app, relayVars, peerVars, uiVars, recvVars, _network_msg_queue, arrived, local_side,
                    gameVars, last, steps >>

Pump == PumpStart \/ PumpWhile \/ PumpPop \/ PumpHandle

\* main thread: a click or the Reset Board button, between two callbacks
PumpClick == pump_pc = "idle" /\ OnClick

PumpReset == pump_pc = "idle" /\ ResetBoard

NextPump == OnMsg \/ Pump \/ PumpClick \/ PumpReset

\* the event loop runs the callback of root.after again and again
SpecPump == InitPump /\ [][NextPump]_vars /\ WF_vars(Pump)

(***************************************************************************)
(* checkersGUINetworked.py and networkTCP.py : two NetworkedCheckersApp    *)
(* processes.  Peer 1 presses Host, peer 2 presses Connect; each peer's    *)
(* app is a record.  link.server and link.client follow TCPServer and      *)
(* TCPClient: their _connection exists once the value is "up".  TCP keeps  *)
(* the order of the lines of wire[p]; the receive thread of peer p moves a *)
(* line from wire[p] to the peer's _network_msg_queue.                     *)
(***************************************************************************)
\* moves made by clicks in one behaviour of the two peers
MaxSent == 1

Peers == { 1, 2 }
OtherPeer(p) == 3 - p

\* NetworkedCheckersApp.__init__
NewApp == [grid |-> setup_initial, current_player |-> "RED", local_side |-> "None",
           selected |-> NoSquare, cache |-> << >>, queue |-> << >>]

\* TCPServer._connection / TCPClient._connection of peer p is set
HasConnection(lk, p) == IF p = 1 THEN lk.server = "up" ELSE lk.client = "up"

\* send_move_over_network, TCPServer.send, TCPClient.send: the line put on
\* the wire, or NoLine when tcp_conn_interface or its _connection is None
send_move_over_network(st, lk, p, m) ==
    IF st.local_side = "None" THEN NoLine
    ELSE IF HasConnection(lk, p) THEN MoveLine(m)
    ELSE NoLine

\* NetworkedCheckersApp.on_click of peer p on square pos
net_on_click(st, lk, p, all_moves, pos) ==
    IF st.local_side # "None" /\ st.local_side # st.current_player
    THEN [st |-> st, sent |-> NoLine, applied |-> FALSE]
    ELSE IF st.selected # NoSquare /\ ClickMatches(st.cache, st.selected, pos) # {}
    THEN LET m == FirstMatch(st.cache, st.selected, pos)
             res == apply_move(st.grid, m)
         IN IF res.raised
            THEN [st |-> [st EXCEPT !.grid = res.grid], sent |-> NoLine, applied |-> TRUE]
            ELSE [st |-> [st EXCEPT !.grid = res.grid,
                                    !.current_player = Other(st.current_player),
                                    !.selected = NoSquare,
                                    !.cache = << >>],
                  sent |-> send_move_over_network(st, lk, p, m),
                  applied |-> TRUE]
    ELSE IF piece_owner(st.grid[pos]) = st.current_player
    THEN LET sel == select_square(all_moves, pos)
         IN [st |-> [st EXCEPT !.selected = sel.selected, !.cache = sel.cache],
             sent |-> NoLine, applied |-> FALSE]
    ELSE IF st.selected # NoSquare
    THEN [st |-> [st EXCEPT !.selected = NoSquare, !.cache = << >>],
          sent |-> NoLine, applied |-> FALSE]
    ELSE [st |-> st, sent |-> NoLine, applied |-> FALSE]

\* NetworkedCheckersApp.reset_board
reset_board(st) ==
    [st EXCEPT !.grid = setup_initial, !.current_player = "RED",
               !.selected = NoSquare, !.cache = << >>]

\* _pump_network_messages: every queued line is handled, oldest first
RECURSIVE _pump_network_messages(_)
_pump_network_messages(st) ==
    IF st.queue = << >> THEN st
    ELSE LET res == _handle_network_msg(st.grid, st.current_player, st.selected,
                                        st.cache, Head(st.queue))
         IN _pump_network_messages(
                [st EXCEPT !.grid = res.grid, !.current_player = res.current_player,
                           !.selected = res.selected, !.cache = res.cache,
                           !.queue = Tail(st.queue)])

InitPeers ==
    /\ app = "peers"
    /\ peers = [p \in Peers |-> NewApp]
    /\ wire = [p \in Peers |-> << >>]
    /\ link = NoLink
    /\ IdleEngine /\ IdleGui /\ IdleUi /\ IdleRecv /\ IdlePump /\ IdleRelay /\ IdleGame
    /\ last = NoLast
    /\ steps = 0

\* peer 1: NetworkedCheckersApp.host; TCPServer starts to listen
PeerHost ==
    /\ app = "peers"
    /\ link.server = "none"
    /\ peers' = [peers EXCEPT ![1].local_side = "RED"]
    /\ link' = [link EXCEPT !.server = "listening"]
    /\ UNCHANGED << app, relayVars, uiVars, recvVars, pumpVars, wire, engineVars, guiVars, gameVars,
                    last, steps >>

\* peer 2: NetworkedCheckersApp.connect; TCPClient starts its thread
PeerConnect ==
    /\ app = "peers"
    /\ link.client = "none"
    /\ peers' = [peers EXCEPT ![2].local_side = "BLACK"]
    /\ link' = [link EXCEPT !.client = "started"]
    /\ UNCHANGED << app, relayVars, uiVars, recvVars, pumpVars, wire, engineVars, guiVars, gameVars,
                    last, steps >>

\* TCPClient._connect_thread: s.connect succeeds if the server listens
ConnectThread ==
    /\ app = "peers"
    /\ link.client = "started"
    /\ link' = [link EXCEPT !.client = IF link.server = "listening" THEN "up"
                                       ELSE "failed"]
    /\ UNCHANGED << app, relayVars, uiVars, recvVars, pumpVars, peers, wire, engineVars, guiVars,
                    gameVars, last, steps >>

\* TCPServer._listen_thread: s.accept returns, self._connection is set
ListenThread ==
    /\ app = "peers"
    /\ link.server = "listening"
    /\ link.client = "up"
    /\ link' = [link EXCEPT !.server = "up"]
    /\ UNCHANGED << app, relayVars, uiVars, recvVars, pumpVars, peers, wire, engineVars, guiVars,
                    gameVars, last, steps >>

\* a click of peer p on one of the squares of the canvas
PeerClick ==
    /\ app = "peers"
    /\ \E p \in Peers :
       \E all_moves \in { legal_moves(peers[p].grid, peers[p].current_player, TRUE) } :
       \E pos \in ClickSquares :
       \E res \in { net_on_click(peers[p], link, p, all_moves, pos) } :
          /\ res.applied => steps < MaxSent
          /\ peers' = [peers EXCEPT ![p] = res.st]
          /\ wire' = IF res.sent = NoLine THEN wire
                     ELSE [wire EXCEPT ![OtherPeer(p)] = Append(@, res.sent)]
          /\ steps' = IF res.applied THEN steps + 1 ELSE steps
    /\ UNCHANGED << app, relayVars, uiVars, recvVars, pumpVars, link, engineVars, guiVars, gameVars,
                    last >>

\* the Reset Board button of peer p
PeerReset ==
    /\ app = "peers"
    /\ steps > 0
    /\ \E p \in Peers : peers' = [peers EXCEPT ![p] = reset_board(peers[p])]
    /\ UNCHANGED << app, relayVars, uiVars, recvVars, pumpVars, wire, link, engineVars, guiVars,
                    gameVars, last, steps >>

\* receive thread of peer p: _recv_loop hands the next line to on_msg
PeerReceive ==
    /\ app = "peers"
    /\ \E p \in Peers :
          /\ HasConnection(link, p)
          /\ wire[p] # << >>
          /\ peers' = [peers EXCEPT ![p].queue = on_msg(@, Head(wire[p]))]
          /\ wire' = [wire EXCEPT ![p] = Tail(@)]
    /\ UNCHANGED << app, relayVars, uiVars, recvVars, pumpVars, link, engineVars, guiVars, gameVars,
                    last, steps >>

\* main thread of peer p: _pump_network_messages finds lines in the queue
PeerPump ==
    /\ app = "peers"
    /\ \E p \in Peers :
          /\ peers[p].queue # << >>
          /\ peers' = [peers EXCEPT ![p] = _pump_network_messages(peers[p])]
    /\ UNCHANGED << app, relayVars, uiVars, recvVars, pumpVars, wire, link, engineVars, guiVars,
                    gameVars, last, steps >>

NextPeers ==
    \/ PeerHost \/ PeerConnect \/ ConnectThread \/ ListenThread
    \/ PeerClick \/ PeerReset \/ PeerReceive \/ PeerPump

SpecPeers == InitPeers /\ [][NextPeers]_vars

(***************************************************************************)
(* OFFLINEcheckersGUI.py : CheckersGUI.switch_player, which asks the board *)
(* of checkersEngine is_game_over() and winner().  SpecOver calls it on    *)
(* every starting position and after a move.  last.ok is the value of      *)
(* is_game_over(), last.player the value of winner().                      *)
(***************************************************************************)
SwitchPlayer ==
    /\ app = "engine"
    /\ steps < MaxCalls
    /\ current_player' = Other(current_player)
    /\ \E over \in { is_game_over(grid) } :
          last' = [NoLast EXCEPT !.op = "switch_player",
                                 !.ok = over,
                                 !.player = winner_of(grid)]
    /\ steps' = steps + 1
    /\ UNCHANGED << app, relayVars, peerVars, uiVars, recvVars, pumpVars, engineVars, local_side,
                    selected, valid_moves_cache, gameVars >>

NextOver == ApplyLegalMove \/ SwitchPlayer

SpecOver == InitEngine /\ [][NextOver]_vars

(***************************************************************************)
(* matchServer.py : the relay after both players were accepted and the     *)
(* threads t1 = forward(p1, p2) and t2 = forward(p2, p1) were started.     *)
(* Thread i reads from socket i and writes to the other socket.  Its       *)
(* position is "loop" (about to call src.recv), "in_recv" (inside recv),   *)
(* "send" (about to call dst.sendall), "close" (about to close both        *)
(* sockets) or "done".  A chunk is << player, number >>.  What close() on  *)
(* a socket does to a recv of another thread that is blocked on it depends *)
(* on the platform: the recv fails, or it stays blocked until data or the  *)
(* end of the stream arrives.                                              *)
(***************************************************************************)
NoChunk == << >>

\* forward, line 12: src.recv(4096) is called; a closed socket raises
recv_call(st, src_state) ==
    IF src_state = "closed" THEN [st EXCEPT !.pc = "close"]
    ELSE [st EXCEPT !.pc = "in_recv"]

\* forward, lines 12-17: recv returns a chunk, or b'' at the end of the stream
recv_return(st, box) ==
    IF box # << >> THEN [pc |-> "send", data |-> Head(box)]
    ELSE [pc |-> "close", data |-> NoChunk]

\* forward, lines 15-16 and 20-21: dst.close(); src.close(); break.  The
\* other thread, if it is inside recv, fails there when woken is TRUE
close_sockets(f, i, woken) ==
    [t \in Peers |-> IF t = i THEN [pc |-> "done", data |-> NoChunk]
                     ELSE IF f[t].pc = "in_recv" /\ woken
                     THEN [pc |-> "close", data |-> NoChunk]
                     ELSE f[t]]

InitRelay ==
    /\ app = "relay"
    /\ fwd = [i \in Peers |-> [pc |-> "loop", data |-> NoChunk]]
    /\ sock = [i \in Peers |-> "open"]
    /\ inbox = [i \in Peers |-> << >>]
    /\ gone = [i \in Peers |-> FALSE]
    /\ sent = [i \in Peers |-> << >>]
    /\ relayed = [i \in Peers |-> << >>]
    /\ server = "listening"
    /\ IdleEngine /\ IdleGui /\ IdleUi /\ IdleRecv /\ IdlePump /\ IdlePeers /\ IdleGame
    /\ last = NoLast
    /\ steps = 0

relayRest == << app, peerVars, uiVars, recvVars, pumpVars, engineVars, guiVars, gameVars,
                last, steps >>

\* player i sends a chunk
PlayerSend(i) ==
    /\ app = "relay"
    /\ ~gone[i]
    /\ Len(sent[i]) < MaxEvents
    /\ \E chunk \in { << i, Len(sent[i]) + 1 >> } :
          /\ inbox' = [inbox EXCEPT ![i] = Append(@, chunk)]
          /\ sent' = [sent EXCEPT ![i] = Append(@, chunk)]
    /\ UNCHANGED << fwd, sock, gone, relayed, server >>
    /\ UNCHANGED relayRest

\* player i closes its connection
PlayerDisconnect(i) ==
    /\ app = "relay"
    /\ ~gone[i]
    /\ gone' = [gone EXCEPT ![i] = TRUE]
    /\ UNCHANGED << fwd, sock, inbox, sent, relayed, server >>
    /\ UNCHANGED relayRest

\* thread i, line 12: data = src.recv(4096) is called
ForwardRecv(i) ==
    /\ app = "relay"
    /\ fwd[i].pc = "loop"
    /\ fwd' = [fwd EXCEPT ![i] = recv_call(@, sock[i])]
    /\ UNCHANGED << sock, inbox, gone, sent, relayed, server >>
    /\ UNCHANGED relayRest

\* thread i, lines 12-13: recv returns when a chunk or the end has arrived
ForwardReturn(i) ==
    /\ app = "relay"
    /\ fwd[i].pc = "in_recv"
    /\ inbox[i] # << >> \/ gone[i]
    /\ fwd' = [fwd EXCEPT ![i] = recv_return(@, inbox[i])]
    /\ inbox' = [inbox EXCEPT ![i] = IF @ # << >> THEN Tail(@) ELSE @]
    /\ UNCHANGED << sock, gone, sent, relayed, server >>
    /\ UNCHANGED relayRest

\* thread i, line 18: dst.sendall(data); it raises on a closed socket and
\* may raise when the other player is gone
ForwardSend(i) ==
    /\ app = "relay"
    /\ fwd[i].pc = "send"
    /\ \E raises \in (IF sock[OtherPeer(i)] = "closed" THEN { TRUE }
                      ELSE IF gone[OtherPeer(i)] THEN BOOLEAN
                      ELSE { FALSE }) :
          IF raises
          THEN /\ fwd' = [fwd EXCEPT ![i] = [pc |-> "close", data |-> NoChunk]]
               /\ UNCHANGED relayed
          ELSE /\ fwd' = [fwd EXCEPT ![i] = [pc |-> "loop", data |-> NoChunk]]
               /\ relayed' = [relayed EXCEPT ![OtherPeer(i)] = Append(@, fwd[i].data)]
    /\ UNCHANGED << sock, inbox, gone, sent, server >>
    /\ UNCHANGED relayRest

\* thread i, lines 14-17 and 19-22: both sockets are closed, the loop ends
ForwardClose(i) ==
    /\ app = "relay"
    /\ fwd[i].pc = "close"
    /\ \E woken \in BOOLEAN : fwd' = close_sockets(fwd, i, woken)
    /\ sock' = [t \in Peers |-> "closed"]
    /\ UNCHANGED << inbox, gone, sent, relayed, server >>
    /\ UNCHANGED relayRest

Forward(i) == ForwardRecv(i) \/ ForwardReturn(i) \/ ForwardSend(i) \/ ForwardClose(i)

\* main thread, lines 47-51: t1.join(); t2.join(); server.close()
MainJoin ==
    /\ app = "relay"
    /\ server = "listening"
    /\ \A i \in Peers : fwd[i].pc = "done"
    /\ server' = "closed"
    /\ UNCHANGED << fwd, sock, inbox, gone, sent, relayed >>
    /\ UNCHANGED relayRest

NextRelay ==
    \/ \E i \in Peers : PlayerSend(i)
    \/ \E i \in Peers : PlayerDisconnect(i)
    \/ \E i \in Peers : Forward(i)
    \/ MainJoin

\* the threads of the server run whenever they can; the players need not act
SpecRelay ==
    /\ InitRelay /\ [][NextRelay]_vars
    /\ \A i \in Peers : WF_vars(Forward(i))
    /\ WF_vars(MainJoin)

(***************************************************************************)
(* tkinter_ui.py : CheckersUI.  The state of the UI and of its Game is a   *)
(* record; on_click is a function from the state and the clicked square to *)
(* the state it leaves.                                                    *)
(***************************************************************************)
UiState(b, t, sel, mc, cp) ==
    [board |-> b, turn |-> t, selected |-> sel, must_continue |-> mc, continue_pos |-> cp,
     applied |-> FALSE, cont |-> FALSE]

\* CheckersUI.on_click for a click on square pos of the canvas; applied tells
\* whether Game.move_piece applied a move in this call
on_click(st, pos) ==
    LET same == UiState(st.board, st.turn, st.selected, st.must_continue, st.continue_pos)
        piece == Bget(st.board, pos[1], pos[2])
    IN IF st.must_continue /\ pos # st.continue_pos
       THEN same                                               \* lines 85-87
       ELSE IF piece # None /\ piece.color = st.turn
       THEN [same EXCEPT !.selected = pos]                     \* lines 92-96
       ELSE IF st.selected = NoSquare THEN same
       ELSE Bind(get_valid_moves(st.board, st.selected[1], st.selected[2]),
                 LAMBDA valid :
                    IF pos \notin DOMAIN valid THEN same       \* lines 105-107
                    ELSE Bind(move_piece(st.board, st.turn, st.selected, pos),
                              LAMBDA res :
                                 IF ~res.ok
                                 THEN [same EXCEPT !.board = res.board, !.turn = res.turn]
                                 ELSE IF res.continue
                                 THEN [board |-> res.board, turn |-> res.turn,
                                       selected |-> res.pos, must_continue |-> TRUE,
                                       continue_pos |-> res.pos,
                                       applied |-> TRUE, cont |-> TRUE]
                                 ELSE [board |-> res.board, turn |-> res.turn,
                                       selected |-> NoSquare, must_continue |-> FALSE,
                                       continue_pos |-> NoSquare,
                                       applied |-> TRUE, cont |-> FALSE]))

\* the squares of the canvas that are clicked: every dark square and one
\* light square
CanvasSquares == { sq \in Squares : (sq[1] + sq[2]) % 2 = 1 } \cup { << 0, 0 >> }

InitUi ==
    /\ app = "ui"
    /\ board \in StartBoards
    /\ turn \in {"RED", "BLACK"}
    /\ winner = "None"
    /\ pending = NoSquare
    /\ selected = NoSquare
    /\ IdleUi /\ IdleRecv /\ IdlePump /\ IdleRelay /\ IdlePeers
    /\ IdleEngine
    /\ current_player = "RED" /\ local_side = "None" /\ valid_moves_cache = << >>
    /\ last = NoLast
    /\ steps = 0

\* CheckersUI.on_click
UiOnClick ==
    /\ app = "ui"
    /\ \E pos \in CanvasSquares :
       \E st \in { on_click(UiState(board, turn, selected, must_continue, continue_pos),
                            pos) } :
            /\ st.applied => steps < MaxCalls
            /\ board' = st.board
            /\ turn' = st.turn
            /\ selected' = st.selected
            /\ must_continue' = st.must_continue
            /\ continue_pos' = st.continue_pos
            /\ pending' = IF st.applied THEN st.continue_pos ELSE pending
            /\ last' = IF st.applied
                       THEN [NoLast EXCEPT !.op = "ui_move", !.player = turn,
                                           !.move = << selected, pos >>,
                                           !.cont = st.cont]
                       ELSE last
            /\ steps' = IF st.applied THEN steps + 1 ELSE steps
    /\ UNCHANGED << app, relayVars, peerVars, recvVars, pumpVars, winner, engineVars, current_player, local_side,
                    valid_moves_cache >>

\* CheckersUI.restart
UiRestart ==
    /\ app = "ui"
    /\ steps > 0
    /\ board' = _create_board
    /\ turn' = "RED"
    /\ winner' = "None"
    /\ selected' = NoSquare
    /\ must_continue' = FALSE
    /\ continue_pos' = NoSquare
    /\ pending' = NoSquare
    /\ last' = [NoLast EXCEPT !.op = "restart"]
    /\ UNCHANGED << app, relayVars, peerVars, recvVars, pumpVars, steps, engineVars, current_player, local_side,
                    valid_moves_cache >>

NextUi == UiOnClick \/ UiRestart

SpecUi == InitUi /\ [][NextUi]_vars

(***************************************************************************)
(* networkTCP.py : TCPConnection._recv_loop.  A byte is "a" (0x61), "LF"   *)
(* (0x0A), "C3" or "A9" (the two bytes of U+00E9 in UTF-8).  A character   *)
(* of the decoded text is "a", "LF", "E9" (U+00E9) or "FFFD" (the          *)
(* replacement character).                                                 *)
(***************************************************************************)
MaxStream == 4      \* most bytes the peer sends in one behaviour

Bytes == { "a", "LF", "C3", "A9" }

\* bytes.decode('utf-8', errors='replace') from position i of data
RECURSIVE decode(_, _)
decode(data, i) ==
    IF i > Len(data) THEN << >>
    ELSE IF data[i] = "C3"
         THEN IF i + 1 <= Len(data) /\ data[i + 1] = "A9"
              THEN << "E9" >> \o decode(data, i + 2)
              ELSE << "FFFD" >> \o decode(data, i + 1)
    ELSE IF data[i] = "A9" THEN << "FFFD" >> \o decode(data, i + 1)
    ELSE << data[i] >> \o decode(data, i + 1)

\* the loop of lines 32-39: the calls of on_message added to out and the
\* buffer that is left
RECURSIVE split_lines(_, _)
split_lines(buf, out) ==
    IF "LF" \notin SeqToSet(buf) THEN [buffer |-> buf, delivered |-> out]
    ELSE LET i == CHOOSE k \in 1 .. Len(buf) :
                     buf[k] = "LF" /\ \A j \in 1 .. (k - 1) : buf[j] # "LF"
             line == SubSeq(buf, 1, i - 1)
         IN split_lines(SubSeq(buf, i + 1, Len(buf)),
                        IF line # << >> THEN Append(out, line) ELSE out)

\* the streams of at most n bytes
RECURSIVE StreamsUpTo(_)
StreamsUpTo(n) ==
    IF n = 0 THEN { << >> }
    ELSE StreamsUpTo(n - 1)
         \cup { Append(s, b) : s \in { t \in StreamsUpTo(n - 1) : Len(t) = n - 1 },
                               b \in Bytes }

\* the ways recv may cut a stream into non-empty chunks
RECURSIVE Splits(_)
Splits(s) ==
    IF s = << >> THEN { << >> }
    ELSE UNION { { << SubSeq(s, 1, k) >> \o rest :
                     rest \in Splits(SubSeq(s, k + 1, Len(s))) } : k \in 1 .. Len(s) }

\* the socket is connected; recv returns the chunks and then b'' when the
\* peer has closed the connection
InitRecv ==
    /\ app = "recv"
    /\ stream \in StreamsUpTo(MaxStream)
    /\ chunks \in { Append(sp, << >>) : sp \in Splits(stream) }
    /\ buffer = << >>
    /\ delivered = << >>
    /\ running = TRUE
    /\ IdleEngine /\ IdleGui /\ IdleUi /\ IdlePump /\ IdleRelay /\ IdlePeers /\ IdleGame
    /\ last = NoLast
    /\ steps = 0

\* one round of the loop of line 27: recv, decode, deliver the full lines
RecvLoop ==
    /\ app = "recv"
    /\ running
    /\ chunks # << >>
    /\ chunks' = Tail(chunks)
    /\ IF Head(chunks) = << >>
       THEN /\ running' = FALSE                     \* lines 29-30, 42-43
            /\ UNCHANGED << buffer, delivered >>
       ELSE \E res \in { split_lines(buffer \o decode(Head(chunks), 1), delivered) } :
               /\ buffer' = res.buffer
               /\ delivered' = res.delivered
               /\ running' = running
    /\ steps' = steps + 1
    /\ last' = [NoLast EXCEPT !.op = "recv"]
    /\ UNCHANGED << app, relayVars, peerVars, uiVars, pumpVars, stream, engineVars, guiVars, gameVars >>

NextRecv == RecvLoop

SpecRecv == InitRecv /\ [][NextRecv]_vars

(***************************************************************************)
(* Vocabulary of the properties                                            *)
(***************************************************************************)
\* every hop of the path spans two rows and two columns
IsJumpPath(m) ==
    /\ Len(m) >= 2
    /\ \A i \in 1 .. (Len(m) - 1) :
         Abs(m[i + 1][1] - m[i][1]) = 2 /\ Abs(m[i + 1][2] - m[i][2]) = 2

\* a one-step move without capture
IsSimpleStep(m) ==
    Len(m) = 2 /\ Abs(m[2][1] - m[1][1]) = 1 /\ Abs(m[2][2] - m[1][2]) = 1

PiecesOf(b, player) == { sq \in Squares : piece_owner(b[sq]) = player }
GPiecesOf(b, color) == { sq \in Squares : b[sq].color = color }

\* some piece of the player has a capture sequence
HasCapture(b, player) ==
    \E sq \in PiecesOf(b, player) : _find_captures_from(b, sq[1], sq[2]) # << >>

GHasCapture(b, color) ==
    \E sq \in GPiecesOf(b, color) : any_values(get_valid_moves(b, sq[1], sq[2]))

LastDest == last.move[Len(last.move)]

(***************************************************************************)
(* C1: whenever some piece of a player has a capture sequence,             *)
(* legal_moves(player), with max_capture True and False, returns capture   *)
(* paths only: no returned move is a one-step non-capturing move.          *)
(***************************************************************************)
C1_MandatoryCapture ==
    \A player \in Player, max_capture \in BOOLEAN :
        HasCapture(grid, player) =>
            \A m \in SeqToSet(legal_moves(grid, player, max_capture)) :
                IsJumpPath(m) /\ ~IsSimpleStep(m)

\* a player with a capture for one piece and a free step for another piece
C1_Witness ==
    /\ app = "engine"
    /\ \E player \in Player :
         /\ HasCapture(grid, player)
         /\ \E sq \in PiecesOf(grid, player) :
              /\ _find_captures_from(grid, sq[1], sq[2]) = << >>
              /\ _find_simple_moves_from(grid, sq[1], sq[2]) # << >>
         /\ legal_moves(grid, player, TRUE) # << >>

(***************************************************************************)
(* C2 (as claimed): in Game, whenever a piece of the side to move has a    *)
(* capture, get_all_moves of that side holds no non-capturing destination  *)
(* and move_piece accepts no non-capturing move of that side.              *)
(***************************************************************************)
C2_GameMandatoryCapture ==
    (app = "game" /\ GHasCapture(board, turn)) =>
        /\ \A sq \in DOMAIN get_all_moves(board, turn) :
             \A d \in DOMAIN get_all_moves(board, turn)[sq] :
                get_all_moves(board, turn)[sq][d] # << >>
        /\ \A start \in GPiecesOf(board, turn) :
             \A end \in EndsFor(board, start) :
                move_piece(board, turn, start, end).ok =>
                    get_valid_moves(board, start[1], start[2])[end] # << >>

(***************************************************************************)
(* C3: apply_move of a move returned by legal_moves leaves the mover's     *)
(* piece count unchanged and lowers the opponent's count by len(m)-1 for   *)
(* a capture path and by 0 for a simple step.                              *)
(***************************************************************************)
C3_Conservation ==
    [][ last'.op = "apply_move" =>
          LET m == last'.move
              mover == last'.player
          IN /\ Cardinality(PiecesOf(grid', mover)) = Cardinality(PiecesOf(grid, mover))
             /\ Cardinality(PiecesOf(grid', Other(mover)))
                  = Cardinality(PiecesOf(grid, Other(mover)))
                      - (IF IsJumpPath(m) THEN Len(m) - 1 ELSE 0)
             /\ (IsSimpleStep(m) \/ IsJumpPath(m)) ]_vars

\* a multi-jump has been applied
C3_Witness ==
    /\ last.op = "apply_move"
    /\ Len(last.move) > 2
    /\ IsJumpPath(last.move)

(***************************************************************************)
(* C4 (as claimed): a successful Game.move_piece leaves the number of      *)
(* pieces of the mover's colour unchanged and the moved piece stands on    *)
(* the destination square afterwards.                                      *)
(***************************************************************************)
C4_GameMoverKept ==
    [][ (last'.op = "move_piece" /\ last'.ok) =>
          LET end == last'.move[2]
              mover == last'.player
          IN /\ Cardinality(GPiecesOf(board', mover)) = Cardinality(GPiecesOf(board, mover))
             /\ board'[end].color = mover ]_vars

(***************************************************************************)
(* C5 (as claimed): after move_piece reported a continuation at square P,  *)
(* every move_piece call that starts on another square is rejected until   *)
(* the continuation from P has been played.                                *)
(***************************************************************************)
C5_ContinuationEnforced ==
    [][ (last'.op = "move_piece" /\ last'.off) => ~last'.ok ]_vars

(***************************************************************************)
(* C6: the turn changes exactly when a move_piece call succeeds and        *)
(* reports no continuation; a success with continue=True and a rejected    *)
(* call leave it unchanged.                                                *)
(***************************************************************************)
C6_TurnChange ==
    [][ last'.op = "move_piece" =>
          /\ (last'.ok /\ ~last'.cont) => turn' = Other(turn)
          /\ (last'.ok /\ last'.cont) => turn' = turn
          /\ ~last'.ok => turn' = turn ]_vars

\* a successful call has reported a continuation
C6_Witness ==
    /\ last.op = "move_piece"
    /\ last.ok /\ last.cont
    /\ pending = last.move[2]

(***************************************************************************)
(* C7 (as claimed): a received MOVE line whose path is not a legal move of *)
(* the side to move on the receiver's board is not applied: board and      *)
(* current_player are unchanged after it has been handled.                 *)
(***************************************************************************)
C7_IllegalRemoteMoveIgnored ==
    [][ (last'.op = "net_msg" /\ last'.why = "illegal path") =>
          (grid' = grid /\ current_player' = current_player) ]_vars

(***************************************************************************)
(* C8: a rejected move_piece call (empty origin, piece of the side not to  *)
(* move, destination not among the origin's valid moves) returns failure   *)
(* and leaves board, turn and winner as they were.                         *)
(***************************************************************************)
C8_RejectedUnchanged ==
    [][ (last'.op = "move_piece" /\ (last'.why # "none" \/ ~last'.ok)) =>
          /\ ~last'.ok
          /\ last'.why # "none"
          /\ board' = board
          /\ turn' = turn
          /\ winner' = winner ]_vars

\* a call with a destination that is not on offer has been rejected
C8_Witness ==
    /\ last.op = "move_piece"
    /\ ~last.ok
    /\ last.why = "bad destination"

(***************************************************************************)
(* C9: no move turns a King into a Man or changes a piece's owner: after   *)
(* apply_move of a legal move and after Game.move_piece, every piece on    *)
(* the board is either the piece that stood there before, or the moved     *)
(* piece on its final square, of the same colour and still a King if it    *)
(* was one.                                                                *)
(***************************************************************************)
C9_KingStaysKing ==
    [][ /\ last'.op = "apply_move" =>
             \A sq \in Squares :
                grid'[sq] # "EMPTY" =>
                   \/ grid'[sq] = grid[sq]
                   \/ /\ sq = last'.move[Len(last'.move)]
                      /\ piece_owner(grid'[sq]) = piece_owner(last'.piece)
                      /\ is_king(last'.piece) => is_king(grid'[sq])
        /\ (last'.op = "move_piece" /\ last'.ok) =>
             \A sq \in Squares :
                board'[sq] # None =>
                   \/ board'[sq] = board[sq]
                   \/ /\ sq = last'.move[2]
                      /\ board'[sq].color = last'.piece.color
                      /\ last'.piece.king => board'[sq].king ]_vars

\* a King has made a capture in checkersEngine
C9_Witness ==
    /\ last.op = "apply_move"
    /\ is_king(last.piece)
    /\ IsJumpPath(last.move)
    /\ is_king(grid[LastDest])

(***************************************************************************)
(* C10: after apply_move of a legal move the piece on the final square is  *)
(* a King iff it was a King before or it is a Man that ended on its        *)
(* farthest row (row 0 for RED, row 7 for BLACK); a King's simple moves    *)
(* and captures are generated in all four diagonal directions.             *)
(***************************************************************************)
KingAllDirections(b, sq) ==
    \A i \in 1 .. 4 :
        LET n == << sq[1] + directions[i][1], sq[2] + directions[i][2] >>
            l == << sq[1] + 2 * directions[i][1], sq[2] + 2 * directions[i][2] >>
        IN /\ (n \in Squares /\ b[n] = "EMPTY")
                => << sq, n >> \in SeqToSet(_find_simple_moves_from(b, sq[1], sq[2]))
           /\ (l \in Squares /\ b[l] = "EMPTY"
                 /\ piece_owner(b[n]) = Other(piece_owner(b[sq])))
                => \E path \in SeqToSet(_find_captures_from(b, sq[1], sq[2])) : path[2] = l

C11_NoPieceOnLight ==
    \A sq \in Squares :
        ~is_dark_square(sq[1], sq[2]) => (grid[sq] = "EMPTY" /\ board[sq] = None)

\* a move has been made in one of the engines and its piece stands on the
\* destination
C11_Witness ==
    \/ last.op = "apply_move" /\ grid[LastDest] # "EMPTY" /\ IsSimpleStep(last.move)
    \/ last.op = "move_piece" /\ last.ok /\ board[last.move[2]] # None

(***************************************************************************)
(* C12: coord_to_pos(pos_to_coord((r, c))) = (r, c) for every square of    *)
(* the board, and pos_to_coord(coord_to_pos(s)) = s for every name s with  *)
(* column 'a'..'h' and row '1'..'8'.                                       *)
(***************************************************************************)
BoardName(s) ==
    /\ Len(s) = 2
    /\ s[1] \in { "a", "b", "c", "d", "e", "f", "g", "h" }
    /\ s[2] \in { "1", "2", "3", "4", "5", "6", "7", "8" }

C12_NotationRoundTrip ==
    [][ /\ (last.op = "pos_to_coord" /\ last.pos \in Squares
               /\ last'.op = "coord_to_pos")
            => (last'.ok /\ last'.pos = last.pos)
        /\ (last.op = "coord_to_pos" /\ BoardName(last.name)
               /\ last'.op = "pos_to_coord")
            => last'.name = last.name ]_vars

\* a square of the board has gone through both conversions and back
C12_Witness ==
    /\ app = "notation"
    /\ steps = 3
    /\ last.op = "pos_to_coord"
    /\ last.pos \in Squares
    /\ BoardName(last.name)

(***************************************************************************)
(* C13 (as claimed): coord_to_pos of a two-character name whose column     *)
(* letter, in either case, is outside 'a'..'h' or whose row character is   *)
(* outside '1'..'8' fails and returns no pair; no pair it returns lies     *)
(* outside 0..7 x 0..7.                                                    *)
(***************************************************************************)
C13_BadNameFails ==
    (app = "notation" /\ last.op = "coord_to_pos") =>
        /\ (Len(last.name) = 2 /\ ~BoardName(<< Lower(last.name[1]), last.name[2] >>))
              => ~last.ok
        /\ last.ok => last.pos \in Squares

(***************************************************************************)
(* C14: winner() returns player X iff the other player has no pieces while *)
(* X has some, or both have pieces and X has a legal move while the other  *)
(* has none; it returns None when both players have a legal move, and when *)
(* both have pieces and neither has a legal move.                          *)
(***************************************************************************)
CanMove(b, player) ==
    \E sq \in PiecesOf(b, player) :
        \/ _find_simple_moves_from(b, sq[1], sq[2]) # << >>
        \/ _find_captures_from(b, sq[1], sq[2]) # << >>

Wins(b, player) ==
    \/ PiecesOf(b, Other(player)) = {} /\ PiecesOf(b, player) # {}
    \/ /\ PiecesOf(b, "RED") # {} /\ PiecesOf(b, "BLACK") # {}
       /\ CanMove(b, player) /\ ~CanMove(b, Other(player))

C14_Winner ==
    app = "engine" =>
        /\ \A player \in Player : winner_of(grid) = player <=> Wins(grid, player)
        /\ (CanMove(grid, "RED") /\ CanMove(grid, "BLACK")) => winner_of(grid) = "None"
        /\ (/\ PiecesOf(grid, "RED") # {} /\ PiecesOf(grid, "BLACK") # {}
            /\ ~CanMove(grid, "RED") /\ ~CanMove(grid, "BLACK"))
              => winner_of(grid) = "None"

\* a move has left the other side with pieces but without a legal move, and
\* the mover is the winner
C14_Witness ==
    /\ last.op = "apply_move"
    /\ PiecesOf(grid, Other(last.player)) # {}
    /\ ~CanMove(grid, Other(last.player))
    /\ winner_of(grid) = last.player

(***************************************************************************)
(* C15 (as claimed): after every successful Game.move_piece that passes    *)
(* the turn and leaves the opponent with no pieces, or with pieces but no  *)
(* legal move, Game.winner is the player who moved; after every other call *)
(* Game.winner is None.                                                    *)
(***************************************************************************)
OpponentOut(b, color) ==
    \/ GPiecesOf(b, color) = {}
    \/ DOMAIN get_all_moves(b, color) = {}

C15_WinnerSet ==
    [][ last'.op = "move_piece" =>
          IF last'.ok /\ ~last'.cont /\ OpponentOut(board', turn')
          THEN winner' = last'.player
          ELSE winner' = "None" ]_vars

(***************************************************************************)
(* C16 (as claimed): every capture entry returned by                       *)
(* Game.get_valid_moves(r, c) captures as many pieces as the best capture  *)
(* sequence that starts from (r, c).                                       *)
(***************************************************************************)
\* the most pieces captured by a sequence of the dfs from sq
GMaxCaptures(b, sq) ==
    LET leaves == g_dfs(sq[1], sq[2], b, << >>)
    IN CHOOSE n \in { Len(leaves[i].captured) : i \in 1 .. Len(leaves) } :
          \A i \in 1 .. Len(leaves) : Len(leaves[i].captured) <= n

C16_GameMaxCapture ==
    app = "game" =>
        \A sq \in GPiecesOf(board, "RED") \cup GPiecesOf(board, "BLACK") :
            LET valid == get_valid_moves(board, sq[1], sq[2])
            IN \A d \in DOMAIN valid :
                  valid[d] # << >> => Len(valid[d]) = GMaxCaptures(board, sq)

(***************************************************************************)
(* C17: for a player with at least one capture, legal_moves(player,        *)
(* max_capture=True) returns exactly the capture sequences, over all the   *)
(* player's pieces, with the board-wide largest number of jumps, and       *)
(* legal_moves(player, max_capture=False) returns exactly all complete     *)
(* capture sequences of all the player's pieces.                           *)
(***************************************************************************)
\* one more jump for every unfinished sequence; a sequence is a path and
\* the position it leaves
OneMoreJump(owner, F) ==
    UNION { { [path |-> Append(f.path, << f.path[Len(f.path)][1] + 2 * directions[i][1],
                                          f.path[Len(f.path)][2] + 2 * directions[i][2] >>),
               snap |-> jump_snapshot(f.snap, f.path[Len(f.path)][1],
                                      f.path[Len(f.path)][2],
                                      directions[i][1], directions[i][2])] :
              i \in { j \in 1 .. 4 :
                        can_jump(owner, f.snap, f.path[Len(f.path)][1],
                                 f.path[Len(f.path)][2],
                                 directions[j][1], directions[j][2]) } } :
            f \in F }

\* the sequences of F that have jumped and cannot jump further
Finished(owner, F) ==
    { f.path : f \in { g \in F : Len(g.path) > 1 /\ OneMoreJump(owner, {g}) = {} } }

RECURSIVE CompleteFrom(_, _)
CompleteFrom(owner, F) ==
    IF F = {} THEN {} ELSE Finished(owner, F) \cup CompleteFrom(owner, OneMoreJump(owner, F))

\* all complete capture sequences of all the player's pieces
CaptureSequences(b, player) ==
    UNION { CompleteFrom(player, { [path |-> << sq >>, snap |-> b] }) :
            sq \in PiecesOf(b, player) }

C17_EngineCaptureSelection ==
    app = "engine" =>
        \A player \in Player :
            LET all == CaptureSequences(grid, player)
                free == legal_moves(grid, player, FALSE)
                best == legal_moves(grid, player, TRUE)
            IN all # {} =>
                 /\ SeqToSet(free) = all
                 /\ Len(free) = Cardinality(all)
                 /\ SeqToSet(best) = { m \in all : \A o \in all : Len(o) <= Len(m) }
                 /\ Len(best) = Cardinality(SeqToSet(best))

\* a player has capture sequences of different lengths
C17_Witness ==
    /\ app = "engine"
    /\ \E player \in Player :
         /\ \E m, o \in CaptureSequences(grid, player) : Len(m) < Len(o)
         /\ Len(legal_moves(grid, player, TRUE)) < Len(legal_moves(grid, player, FALSE))

(***************************************************************************)
(* C18: in no capture sequence of _find_captures_from or of                *)
(* Game.get_valid_moves does a Man hop towards its own back rows: every    *)
(* hop of a Man, at every step of a multi-jump, goes in its forward row    *)
(* direction (checkersEngine: RED to lower rows, BLACK to higher rows;     *)
(* Game: RED to higher rows, BLACK to lower rows).                         *)
(***************************************************************************)
\* the hops of a Game capture sequence, from its start and captured squares
RECURSIVE GHopsForward(_, _, _, _)
GHopsForward(cur, captured, i, step) ==
    IF i > Len(captured) THEN TRUE
    ELSE /\ captured[i][1] - cur[1] = step
         /\ GHopsForward(<< 2 * captured[i][1] - cur[1], 2 * captured[i][2] - cur[2] >>,
                         captured, i + 1, step)

C18_MenCaptureForward ==
    /\ \A sq \in Squares :
         (app = "engine" /\ grid[sq] \in { "RED", "BLACK" }) =>
            \A path \in SeqToSet(_find_captures_from(grid, sq[1], sq[2])) :
               \A i \in 1 .. (Len(path) - 1) :
                  IF grid[sq] = "RED" THEN path[i + 1][1] < path[i][1]
                                      ELSE path[i + 1][1] > path[i][1]
    /\ \A sq \in Squares :
         (app = "game" /\ board[sq] # None /\ ~board[sq].king) =>
            LET valid == get_valid_moves(board, sq[1], sq[2])
            IN \A d \in DOMAIN valid :
                  GHopsForward(sq, valid[d], 1, IF board[sq].color = "RED" THEN 1 ELSE -1)

\* a Man of Game has a capture sequence while an opposing piece with a free
\* square beyond it stands diagonally behind the Man
C18_Witness ==
    /\ app = "game"
    /\ \E sq \in Squares :
         /\ board[sq] # None /\ ~board[sq].king
         /\ \E d \in DOMAIN get_valid_moves(board, sq[1], sq[2]) :
               Len(get_valid_moves(board, sq[1], sq[2])[d]) >= 1
         /\ \E dc \in { -1, 1 } :
               LET back == IF board[sq].color = "RED" THEN -1 ELSE 1
                   mid == << sq[1] + back, sq[2] + dc >>
                   land == << sq[1] + 2 * back, sq[2] + 2 * dc >>
               IN /\ mid \in Squares /\ land \in Squares
                  /\ board[mid] # None /\ board[mid].color # board[sq].color
                  /\ board[land] = None

(***************************************************************************)
(* C19: move generation is read-only: after Game.get_valid_moves and       *)
(* Game.get_all_moves, and after _find_captures_from and legal_moves of    *)
(* checkersEngine, the caller's board is what it was before the call.      *)
(***************************************************************************)
C19_GenerationReadOnly ==
    [][ /\ last'.op \in { "_find_captures_from", "legal_moves" } => grid' = grid
        /\ last'.op \in { "get_valid_moves", "get_all_moves" } => board' = board ]_vars

\* get_valid_moves has returned on a board where the search of one piece
\* explores several jump branches
C19_Witness ==
    /\ last.op = "get_valid_moves"
    /\ \E sq \in Squares :
          board[sq] # None /\ Len(get_valid_moves_on(<< board >>, sq[1], sq[2]).jumps) >= 2

(***************************************************************************)
(* C20: the capture search ends, for a Man and for a King: every jump of   *)
(* the search leaves one opposing piece fewer on the snapshot it continues *)
(* on, so every sequence has at most as many jumps as there are opposing   *)
(* pieces on the board (at most 12) and captures no piece twice.           *)
(***************************************************************************)
\* every node of the search that starts with the sequences of F
RECURSIVE SearchNodes(_, _)
SearchNodes(owner, F) ==
    IF F = {} THEN {} ELSE F \cup SearchNodes(owner, OneMoreJump(owner, F))

\* the squares jumped over by a path of checkersEngine
Jumped(path) ==
    [i \in 1 .. (Len(path) - 1) |->
        << (path[i][1] + path[i + 1][1]) \div 2, (path[i][2] + path[i + 1][2]) \div 2 >>]

NoRepeat(seq) == \A i, j \in 1 .. Len(seq) : seq[i] = seq[j] => i = j

C20_CaptureSearchBounded ==
    /\ \A sq \in { s \in Squares : app = "engine" /\ grid[s] # "EMPTY" } :
         LET owner == piece_owner(grid[sq])
             opposing == Cardinality(PiecesOf(grid, Other(owner)))
         IN /\ \A f \in SearchNodes(owner, { [path |-> << sq >>, snap |-> grid] }) :
                  Cardinality(PiecesOf(f.snap, Other(owner)))
                     = opposing - (Len(f.path) - 1)
            /\ \A path \in SeqToSet(_find_captures_from(grid, sq[1], sq[2])) :
                  /\ Len(path) - 1 <= opposing
                  /\ Len(path) - 1 <= 12
                  /\ NoRepeat(Jumped(path))
    /\ \A sq \in { s \in Squares : app = "game" /\ board[s] # None } :
         LET opposing == Cardinality(GPiecesOf(board, Other(board[sq].color)))
             leaves == g_dfs(sq[1], sq[2], board, << >>)
         IN \A i \in 1 .. Len(leaves) :
               /\ Len(leaves[i].captured) <= opposing
               /\ Len(leaves[i].captured) <= 12
               /\ NoRepeat(leaves[i].captured)
               /\ \A k \in 1 .. Len(leaves[i].captured) :
                     board[leaves[i].captured[k]].color = Other(board[sq].color)

\* a King of Game has a sequence that captures every opposing piece, three
\* or more
C20_Witness ==
    /\ app = "game"
    /\ \E sq \in { s \in Squares : board[s] # None } :
         /\ board[sq].king
         /\ \E d \in DOMAIN get_valid_moves(board, sq[1], sq[2]) :
               /\ Len(get_valid_moves(board, sq[1], sq[2])[d]) >= 3
               /\ Len(get_valid_moves(board, sq[1], sq[2])[d])
                    = Cardinality(GPiecesOf(board, Other(board[sq].color)))

(***************************************************************************)
(* C21 (as claimed): every move path returned by legal_moves has at least  *)
(* 2 squares and its squares are pairwise distinct: no path visits a       *)
(* square twice or ends on its origin.                                     *)
(***************************************************************************)
C21_PathSquaresDistinct ==
    app = "engine" =>
        \A player \in Player, max_capture \in BOOLEAN :
            \A m \in SeqToSet(legal_moves(grid, player, max_capture)) :
                Len(m) >= 2 /\ NoRepeat(m)

(***************************************************************************)
(* C21 (amended): every move path returned by legal_moves has at least 2   *)
(* squares; the squares of a simple step and of a Man's capture sequence   *)
(* are pairwise distinct; a King's capture sequence may come back to a     *)
(* square it has left, its origin included, but only after four or more    *)
(* jumps.                                                                  *)
(***************************************************************************)
C21_PathRevisitsByKingOnly ==
    app = "engine" =>
        \A player \in Player, max_capture \in BOOLEAN :
            \A m \in SeqToSet(legal_moves(grid, player, max_capture)) :
                /\ Len(m) >= 2
                /\ \A i, j \in 1 .. Len(m) :
                      (i < j /\ m[i] = m[j]) =>
                          (is_king(grid[m[1]]) /\ IsJumpPath(m) /\ j - i >= 4)

\* legal_moves returns a King's capture sequence of four jumps that ends on
\* its origin
C21_Witness ==
    /\ app = "engine"
    /\ \E player \in Player :
         \E m \in SeqToSet(legal_moves(grid, player, TRUE)) :
            Len(m) = 5 /\ m[5] = m[1] /\ is_king(grid[m[1]]) /\ NoRepeat(Jumped(m))

(***************************************************************************)
(* C22: apply_move given a path with fewer than two squares, or a path     *)
(* whose first square is empty, fails with an error and leaves every       *)
(* square of the board unchanged.                                          *)
(***************************************************************************)
C22_MalformedMoveRejected ==
    [][ (/\ last'.op = "apply_move_given"
         /\ \/ Len(last'.move) < 2
            \/ grid[last'.move[1]] = "EMPTY")
          => (~last'.ok /\ \A sq \in Squares : grid'[sq] = grid[sq]) ]_vars

\* apply_move has refused a path that starts on an empty square and jumps
\* over a piece, which is still there
C22_Witness ==
    /\ last.op = "apply_move_given"
    /\ ~last.ok
    /\ Len(last.move) >= 2
    /\ IsJumpPath(last.move)
    /\ grid[last.move[1]] = "EMPTY"
    /\ grid[Jumped(last.move)[1]] # "EMPTY"

(***************************************************************************)
(* C23: a freshly created game, and a game after Game.reset or Reset       *)
(* Board, has exactly 12 RED and 12 BLACK pieces, all Men, all on dark     *)
(* squares, on rows 0-2 and 5-7 only, with rows 3 and 4 empty and RED to   *)
(* move.  A game is fresh until its first move has been applied.           *)
(***************************************************************************)
FreshRows == { 0, 1, 2, 5, 6, 7 }

FreshGrid(g) ==
    /\ Cardinality(PiecesOf(g, "RED")) = 12
    /\ Cardinality(PiecesOf(g, "BLACK")) = 12
    /\ \A sq \in Squares :
          g[sq] # "EMPTY" =>
             /\ ~is_king(g[sq])
             /\ is_dark_square(sq[1], sq[2])
             /\ sq[1] \in FreshRows

FreshBoard(b) ==
    /\ Cardinality(GPiecesOf(b, "RED")) = 12
    /\ Cardinality(GPiecesOf(b, "BLACK")) = 12
    /\ \A sq \in Squares :
          b[sq] # None =>
             /\ ~b[sq].king
             /\ (sq[1] + sq[2]) % 2 = 1
             /\ sq[1] \in FreshRows

C23_FreshLayout ==
    /\ (app = "net" /\ (steps = 0 \/ last.op = "reset_board"))
          => (FreshGrid(grid) /\ current_player = "RED")
    /\ (app = "game" /\ (steps = 0 \/ last.op = "reset"))
          => (FreshBoard(board) /\ turn = "RED")

\* Game.reset has been called after two moves and every piece is back
C23_Witness ==
    /\ app = "game"
    /\ last.op = "reset"
    /\ steps = MaxCalls
    /\ Cardinality(GPiecesOf(board, "RED")) = 12
    /\ Cardinality(GPiecesOf(board, "BLACK")) = 12

(***************************************************************************)
(* C24: for every board, occupied square and direction allowed for the     *)
(* piece's rank, the capture search makes a first jump in that direction   *)
(* iff the adjacent diagonal square holds a piece of the opposing colour   *)
(* and the square two steps away is in bounds and empty; the same          *)
(* condition on the branch's own board, with the pieces captured so far    *)
(* removed, decides every later jump.  Both searches.                      *)
(***************************************************************************)
\* the directions allowed for a rank: all four for a King, the two forward
\* ones for a Man (forward is -1 for RED in checkersEngine, +1 in Game)
AllowedDirs(king, forward) ==
    IF king THEN { << -1, -1 >>, << -1, 1 >>, << 1, -1 >>, << 1, 1 >> }
    ELSE { << forward, -1 >>, << forward, 1 >> }

Toward(sq, d, n) == << sq[1] + n * d[1], sq[2] + n * d[2] >>

\* checkersEngine: the board of the branch that has made the first n jumps
\* of path
AfterJumps(b, path, n) ==
    [sq \in Squares |->
        IF sq = path[n + 1] THEN b[path[1]]
        ELSE IF sq \in { path[i] : i \in 1 .. n } \cup { Jumped(path)[i] : i \in 1 .. n }
             THEN "EMPTY"
             ELSE b[sq]]

JumpCondition(b, from, d) ==
    /\ Toward(from, d, 1) \in Squares
    /\ Toward(from, d, 2) \in Squares
    /\ piece_owner(b[Toward(from, d, 1)]) \in Player
    /\ piece_owner(b[Toward(from, d, 1)]) # piece_owner(b[from])
    /\ b[Toward(from, d, 2)] = "EMPTY"

\* the nodes of the search from sq: the start and every prefix of a result
SearchPrefixes(b, sq) ==
    { << sq >> } \cup
    UNION { { SubSeq(p, 1, k) : k \in 1 .. Len(p) } :
            p \in SeqToSet(_find_captures_from(b, sq[1], sq[2])) }

\* Game: the square reached after the first n captures of a sequence
RECURSIVE GLanding(_, _, _)
GLanding(sq, captured, n) ==
    IF n = 0 THEN sq
    ELSE LET from == GLanding(sq, captured, n - 1)
         IN << 2 * captured[n][1] - from[1], 2 * captured[n][2] - from[2] >>

\* Game: the board of the branch that has made the captures of captured
GAfterJumps(b, sq, captured) ==
    [s \in Squares |->
        IF s = GLanding(sq, captured, Len(captured)) THEN b[sq]
        ELSE IF s \in { GLanding(sq, captured, i) : i \in 0 .. (Len(captured) - 1) }
                      \cup SeqToSet(captured)
             THEN None
             ELSE b[s]]

GJumpCondition(b, from, d) ==
    /\ Toward(from, d, 1) \in Squares
    /\ Toward(from, d, 2) \in Squares
    /\ b[Toward(from, d, 1)] # None
    /\ b[Toward(from, d, 1)].color # b[from].color
    /\ b[Toward(from, d, 2)] = None

GSearchPrefixes(b, sq) ==
    { << >> } \cup
    UNION { { SubSeq(e.captured, 1, k) : k \in 1 .. Len(e.captured) } :
            e \in SeqToSet(g_dfs(sq[1], sq[2], b, << >>)) }

C24_JumpCondition ==
    /\ \A sq \in { s \in Squares : app = "engine" /\ grid[s] # "EMPTY" } :
       \A nodes \in { SearchPrefixes(grid, sq) } :
       \A node \in nodes :
       \A d \in AllowedDirs(is_king(grid[sq]),
                            IF piece_owner(grid[sq]) = "RED" THEN -1 ELSE 1) :
            JumpCondition(AfterJumps(grid, node, Len(node) - 1), node[Len(node)], d)
               <=> Append(node, Toward(node[Len(node)], d, 2)) \in nodes
    /\ \A sq \in { s \in Squares : app = "game" /\ board[s] # None } :
       \A nodes \in { GSearchPrefixes(board, sq) } :
       \A node \in nodes :
       \A d \in AllowedDirs(board[sq].king, IF board[sq].color = "RED" THEN 1 ELSE -1) :
            GJumpCondition(GAfterJumps(board, sq, node),
                           GLanding(sq, node, Len(node)), d)
               <=> Append(node, Toward(GLanding(sq, node, Len(node)), d, 1)) \in nodes

\* a search in checkersEngine has a second jump over a piece that could not
\* be jumped from the start, and a direction of the start is refused
\* because the square behind the opposing piece is taken
C24_Witness ==
    /\ app = "engine"
    /\ \E sq \in { s \in Squares : grid[s] # "EMPTY" } :
         /\ \E p \in SeqToSet(_find_captures_from(grid, sq[1], sq[2])) : Len(p) >= 3
         /\ \E d \in AllowedDirs(is_king(grid[sq]),
                                 IF piece_owner(grid[sq]) = "RED" THEN -1 ELSE 1) :
               /\ Toward(sq, d, 2) \in Squares
               /\ piece_owner(grid[Toward(sq, d, 1)]) = Other(piece_owner(grid[sq]))
               /\ grid[Toward(sq, d, 2)] # "EMPTY"

(***************************************************************************)
(* C25 (as claimed): in the tkinter UI, whenever must_continue is set      *)
(* after a capture, the player can complete the forced continuation: some  *)
(* sequence of board clicks, without Restart, leads to a state in which    *)
(* Game.move_piece has applied the continuing capture and must_continue    *)
(* is cleared.                                                             *)
(***************************************************************************)
\* the states that clicks lead to from the states of frontier; a state in
\* which must_continue is cleared is not left again
RECURSIVE ClickReach(_, _)
ClickReach(seen, frontier) ==
    IF frontier = {} THEN seen
    ELSE ClickReach(seen \cup frontier,
                    { on_click(st, pos) : st \in { f \in frontier : f.must_continue },
                                          pos \in CanvasSquares }
                       \ (seen \cup frontier))

C25_ContinuationCompletable ==
    (app = "ui" /\ must_continue) =>
        \E st \in ClickReach({}, { UiState(board, turn, selected, must_continue,
                                           continue_pos) }) :
            st.applied /\ ~st.must_continue

(***************************************************************************)
(* C26 (as claimed): for every received byte stream and every way it is    *)
(* split into recv chunks, _recv_loop calls on_message exactly once per    *)
(* non-empty newline-terminated line, in stream order, with the line's     *)
(* text without the newline: a line split across chunks is delivered once  *)
(* and whole, empty lines are skipped, text after the last newline is      *)
(* never delivered.                                                        *)
(***************************************************************************)
\* the positions of the newlines that end a non-empty line of text
LineEnds(text) ==
    { i \in 2 .. Len(text) : text[i] = "LF" /\ text[i - 1] # "LF" }

\* the line that ends at the newline on position i
LineAt(text, i) ==
    LET before == { j \in 1 .. (i - 1) : text[j] = "LF" }
        start == IF before = {} THEN 1
                 ELSE 1 + CHOOSE j \in before : \A k \in before : k <= j
    IN SubSeq(text, start, i - 1)

\* the non-empty newline-terminated lines of a text, in order
RECURSIVE LinesFrom(_, _)
LinesFrom(text, ends) ==
    IF ends = {} THEN << >>
    ELSE LET first == CHOOSE i \in ends : \A k \in ends : i <= k
         IN << LineAt(text, first) >> \o LinesFrom(text, ends \ { first })

ExpectedLines(bytes) == LinesFrom(decode(bytes, 1), LineEnds(decode(bytes, 1)))

IsPrefix(s, t) == Len(s) <= Len(t) /\ SubSeq(t, 1, Len(s)) = s

C26_LinesDeliveredOnce ==
    app = "recv" =>
        /\ IsPrefix(delivered, ExpectedLines(stream))
        /\ ~running => delivered = ExpectedLines(stream)

(***************************************************************************)
(* C27  In the networked GUI every line handed to on_msg is handled by     *)
(* _handle_network_msg exactly once and in the order of arrival: the lines *)
(* handled, the line in the hands of the pump and the lines still queued   *)
(* are together the lines that arrived, and each line that arrived is      *)
(* handled in the end.  Only a step of _pump_network_messages on the main  *)
(* thread handles a line; the step of the receive thread leaves the grid,  *)
(* the player to move and the selection alone.                             *)
(***************************************************************************)
InHand == IF pump_pc = "handle" THEN << msg >> ELSE << >>

ReceiveThreadStep == arrived' # arrived

C27_HandledOnceInOrderOnMainThread ==
    /\ [](handled \o InHand \o _network_msg_queue = arrived)
    /\ [][ /\ ReceiveThreadStep =>
                /\ handled' = handled
                /\ UNCHANGED << grid, current_player, selected, valid_moves_cache >>
           /\ handled' # handled =>
                /\ pump_pc = "handle"
                /\ ~ReceiveThreadStep
                /\ handled' = Append(handled, msg) ]_vars
    /\ \A n \in 1 .. MaxEvents + 1 : (Len(arrived) >= n) ~> (Len(handled) >= n)

\* a line arrived while the pump had another one in its hands
C27_Witness ==
    /\ pump_pc = "handle"
    /\ _network_msg_queue # << >>
    /\ msg # _network_msg_queue[1]
    /\ msg.head = "MOVE "
    /\ handled = << >>

(***************************************************************************)
(* C28  In the two-peer networked game, in every reachable state in which  *)
(* no MOVE line is on the wire or in a queue, the boards and the           *)
(* current_player values of the two peers are the same.                    *)
(***************************************************************************)
IsMoveLine(line) == line.head = "MOVE "

NoMoveInFlight ==
    \A p \in Peers :
        /\ \A i \in DOMAIN wire[p] : ~IsMoveLine(wire[p][i])
        /\ \A i \in DOMAIN peers[p].queue : ~IsMoveLine(peers[p].queue[i])

C28_PeersAgreeWhenQuiet ==
    (app = "peers" /\ NoMoveInFlight) =>
        /\ peers[1].grid = peers[2].grid
        /\ peers[1].current_player = peers[2].current_player

(***************************************************************************)
(* C29  Game.move_piece reports continue=True only for a move that         *)
(* captured and made the moved Man a King in that call.  A capturing move  *)
(* that leaves the rank of the piece as it was, and every simple move,     *)
(* reports continue=False and passes the turn.                             *)
(***************************************************************************)
MovePieceAccepted == last'.op = "move_piece" /\ last'.ok /\ steps' = steps + 1

Captured ==
    Cardinality(GPiecesOf(board', Other(turn))) < Cardinality(GPiecesOf(board, Other(turn)))

Promoted ==
    LET end == last'.move[2]
    IN /\ ~last'.piece.king
       /\ board'[end] # None
       /\ board'[end].king

C29_ContinueOnlyAfterPromotion ==
    [][ MovePieceAccepted =>
           /\ last'.cont => (Captured /\ Promoted)
           /\ (~Captured \/ ~Promoted) => (~last'.cont /\ turn' = Other(turn)) ]_vars

\* a Man captured, became a King and is reported to continue
C29_Witness ==
    /\ app = "game"
    /\ last.op = "move_piece" /\ last.ok /\ last.cont
    /\ ~last.piece.king
    /\ board[last.move[2]] # None /\ board[last.move[2]].king
    /\ turn = last.player

(***************************************************************************)
(* C30  In the networked GUI every move held in valid_moves_cache starts   *)
(* at the selected square and is a legal move of current_player on the     *)
(* current board, in every reachable state.                                *)
(***************************************************************************)
C30_CacheMovesLegal ==
    (app = "net" /\ valid_moves_cache # << >>) =>
        \E legal \in { SeqToSet(legal_moves(grid, current_player, TRUE)) } :
            \A i \in DOMAIN valid_moves_cache :
                /\ valid_moves_cache[i][1] = selected
                /\ valid_moves_cache[i] \in legal

(***************************************************************************)
(* C31 (as claimed): on every board is_game_over() and winner() agree: if  *)
(* is_game_over() is False then winner() is None, if winner() is not None  *)
(* then is_game_over() is True, and a game-over board with winner() None   *)
(* is exactly a board where both players have pieces and neither has a     *)
(* legal move.                                                             *)
(***************************************************************************)
BothBlocked(b) ==
    /\ PiecesOf(b, "RED") # {} /\ PiecesOf(b, "BLACK") # {}
    /\ ~CanMove(b, "RED") /\ ~CanMove(b, "BLACK")

NoPieces(b) == PiecesOf(b, "RED") = {} /\ PiecesOf(b, "BLACK") = {}

Asked == app = "engine" /\ last.op = "switch_player"

C31_OverAndWinnerAgree ==
    Asked =>
        /\ ~last.ok => last.player = "None"
        /\ last.player # "None" => last.ok
        /\ (last.ok /\ last.player = "None") <=> BothBlocked(grid)

(***************************************************************************)
(* C31 (amended): if is_game_over() is False then winner() is None, if     *)
(* winner() is not None then is_game_over() is True, and a game-over board *)
(* with winner() None is exactly a board where both players have pieces    *)
(* and neither has a legal move, or a board without any piece.             *)
(***************************************************************************)
C31_OverAndWinnerAgreeOrEmpty ==
    Asked =>
        /\ ~last.ok => last.player = "None"
        /\ last.player # "None" => last.ok
        /\ (last.ok /\ last.player = "None") <=> (BothBlocked(grid) \/ NoPieces(grid))

\* switch_player was called on a board without pieces: game over, no winner
C31_Witness ==
    /\ Asked
    /\ NoPieces(grid)
    /\ last.ok
    /\ last.player = "None"

(***************************************************************************)
(* C32  In the match server, once a forwarding thread has seen its player  *)
(* disconnect (recv returned no data or raised), both player sockets are   *)
(* closed, both threads terminate in the end, and then the server closes   *)
(* its listening socket.  Until a disconnection is seen, every chunk       *)
(* received from one player is sent to the other, unchanged and in order.  *)
(***************************************************************************)
SeenDisconnect == \E i \in Peers : fwd[i].pc \in { "close", "done" }

MatchEnded ==
    /\ \A i \in Peers : sock[i] = "closed" /\ fwd[i].pc = "done"
    /\ server = "closed"

InSend(i) == IF fwd[i].pc = "send" THEN << fwd[i].data >> ELSE << >>

RelayedInOrder ==
    (app = "relay" /\ ~SeenDisconnect) =>
        \A i \in Peers : relayed[OtherPeer(i)] \o InSend(i) \o inbox[i] = sent[i]

C32_DisconnectEndsMatch ==
    /\ []RelayedInOrder
    /\ [](\A i \in Peers : (app = "relay" /\ fwd[i].pc = "done") =>
                               \A t \in Peers : sock[t] = "closed")
    /\ SeenDisconnect ~> MatchEnded

====
